---- MODULE Spec2Model ----
(***************************************************************************)
(* A model of the financial-data normalisation pipeline of the             *)
(* presentation builder: the request planner, transport, flattener, period *)
(* resolver, value extractor, unit normaliser and canonical assembler of   *)
(* logic/api_handler.py, the ratio engine, the trend engine and the       *)
(* moving averages of logic/financial_analysis.py, and the comparison      *)
(* merge and the ticker and fetch handlers of pages/1_Slide_Builder.py.    *)
(*                                                                         *)
(* Python strings that the code takes apart (period tokens, cell texts,    *)
(* column names of the ratio engine) are sequences of one-character        *)
(* strings, so that startswith, in, split, isdigit, int(), float() and the *)
(* f-string formatting are computed character by character.                *)
(***************************************************************************)
EXTENDS Integers, Sequences, FiniteSets, TLC

VARIABLES
    \* Period Resolver, one record at a time
    rs_pc,        \* "input" before the record's year is resolved, "resolved" after
    rs_period,    \* the record's period token
    rs_now,       \* current_year, the anchor
    rs_row,       \* the record: column name -> cell
    rs_year       \* year, as left by lines 411-461

VARIABLES
    \* Value Extractor and Unit Normalizer, one record at a time
    ex_pc,        \* "input", then "extracted", then "stored"
    ex_mnemonic,  \* the metric being processed
    ex_cols,      \* the columns of raw_df, in order
    ex_row,       \* the record: column name -> cell
    ex_value_col, \* value_col, the column identified on the metric's first row
    ex_found,     \* value, with the column it was read from
    ex_stored     \* what is written to financial_data[year][friendly_name]

VARIABLES
    \* one run of fetch_company_by_ticker
    run_pc,         \* where the run is: "start", "fetching", "fetched", "parsed",
                    \* "metrics", "done"
    run_ticker,     \* the argument ticker
    run_years,      \* the argument years
    run_now,        \* datetime.datetime.now().year
    env_ok,         \* whether CIQ_USER and CIQ_PASS are set
    tp_policy,      \* the transport: how it answers each kind of request
    tp_header,      \* the transport: the header of its value column
    tp_silent,      \* the transport: whether its response list is empty
    requests,       \* the planner's requests
    sent,           \* how many of them have been posted
    replies,        \* the replies gathered by ciq_fetch
    raw_df,         \* the flattener's table
    company_name,   \* the display name
    financial_data, \* year -> record of that year
    metric_i,       \* the position of the loop over the metrics dict
    outcome,        \* how the run ended
    result          \* the value fetch_company_by_ticker returns

VARIABLES
    \* one call of calculate_financial_ratios
    ra_pc,        \* the ratio function to apply next, "done" after the last
    ra_data,      \* the argument data
    ra_df,        \* df, the copy the ratio functions work on
    ra_same       \* whether df is the object the caller passed

VARIABLES
    \* one call of merge_company_data
    mg_pc,        \* "start", then "renamed", then "done"
    mg_data1,     \* the argument data1
    mg_data2,     \* the argument data2
    mg_ticker1,   \* the argument ticker1
    mg_ticker2,   \* the argument ticker2
    mg_df1,       \* df1
    mg_df2,       \* df2
    mg_out        \* the value merge_company_data returns

VARIABLES
    \* one call of calculate_trend_analysis
    tr_pc,        \* "start", then "sorted", then "done"; "averages", then
                  \* "columns", then "done" in a call of add_moving_averages
    tr_data,      \* the table the caller passed
    tr_periods,   \* the argument periods
    tr_pad,       \* whether pct_change of the installed pandas fills gaps forward
    tr_df,        \* the name df: the caller's table, then the sorted copy;
                  \* the name result_df in add_moving_averages
    tr_results,   \* the dict results
    tr_same       \* whether df (result_df) is the object the caller passed

VARIABLES
    \* one call of ciq_fetch; a request is named by its place in the plan
    cf_pc,        \* "loop", "posted", then "returned" or "raised"
    cf_requests,  \* the argument input_requests
    cf_i,         \* the loop variable i
    cf_posted,    \* the chunks posted so far, in order
    cf_replies,   \* the list replies
    cf_out        \* what the call returns, None when it raises

VARIABLES
    \* one slide of the slide builder, between two runs of the page script
    sb_pc,            \* "idle" while the page is shown
    sb_ticker,        \* slide['ticker'], the text of the primary ticker field
    sb_ticker2,       \* slide['ticker2'], the text of the comparison ticker field
    sb_enable_ratios, \* slide['enable_ratios']
    sb_chart_data,    \* slide['chart_data'], None while not stored
    sb_chart_data2,   \* slide['chart_data2'], None while not stored
    sb_fetched,       \* the ticker argument of the call that stored chart_data
    sb_fetched2,      \* the ticker argument of the call that stored chart_data2
    sb_merged_data    \* slide['merged_data'], None while not stored

rs_vars == <<rs_pc, rs_period, rs_now, rs_row, rs_year>>
ex_vars == <<ex_pc, ex_mnemonic, ex_cols, ex_row, ex_value_col, ex_found, ex_stored>>
run_vars == <<run_pc, run_ticker, run_years, run_now, env_ok, tp_policy, tp_header,
              tp_silent, requests, sent, replies, raw_df, company_name,
              financial_data, metric_i, outcome, result>>

ra_vars == <<ra_pc, ra_data, ra_df, ra_same>>
mg_vars == <<mg_pc, mg_data1, mg_data2, mg_ticker1, mg_ticker2, mg_df1, mg_df2, mg_out>>

cf_vars == <<cf_pc, cf_requests, cf_i, cf_posted, cf_replies, cf_out>>

sb_vars == <<sb_pc, sb_ticker, sb_ticker2, sb_enable_ratios, sb_chart_data,
             sb_chart_data2, sb_fetched, sb_fetched2, sb_merged_data>>

tr_vars == <<tr_pc, tr_data, tr_periods, tr_pad, tr_df, tr_results, tr_same>>

vars == <<rs_vars, ex_vars, run_vars, ra_vars, mg_vars, tr_vars, cf_vars, sb_vars>>

(***************************************************************************)
(* Bounds of the model.                                                    *)
(***************************************************************************)
\* the smallest anchor year ("now") a run is checked with
BaseYear == 2024
\* how many consecutive anchor years are tried, starting at BaseYear
NumAnchors == 2
\* the largest relative offset k of the tokens IQ_FY-k / IQ_FY+k
MaxOffset == 3
\* the largest number of years a run asks for
MaxYears == 3

(***************************************************************************)
(* Optional values: Python's None and a present value.                     *)
(***************************************************************************)
None == [some |-> FALSE]
Some(v) == [some |-> TRUE, val |-> v]

(***************************************************************************)
(* Python string operations on character sequences.                        *)
(***************************************************************************)
DigitChars == <<"0", "1", "2", "3", "4", "5", "6", "7", "8", "9">>

IsDigitChar(c) == \E i \in 1..10 : DigitChars[i] = c

DigitVal(c) == (CHOOSE i \in 1..10 : DigitChars[i] = c) - 1

\* str.isdigit(): non-empty and every character a digit
IsDigit(s) == Len(s) > 0 /\ \A i \in 1..Len(s) : IsDigitChar(s[i])

\* int(s) of a string of digits
RECURSIVE ParseInt(_)
ParseInt(s) ==
    IF Len(s) = 0 THEN 0
    ELSE 10 * ParseInt(SubSeq(s, 1, Len(s) - 1)) + DigitVal(s[Len(s)])

\* str(n) / f"{n}" of an integer
RECURSIVE FormatNat(_)
FormatNat(n) ==
    IF n < 10 THEN <<DigitChars[n + 1]>>
    ELSE FormatNat(n \div 10) \o <<DigitChars[(n % 10) + 1]>>

FormatInt(n) == IF n < 0 THEN <<"-">> \o FormatNat(-n) ELSE FormatNat(n)

\* s.startswith(p)
StartsWith(s, p) == Len(s) >= Len(p) /\ SubSeq(s, 1, Len(p)) = p

\* sub in s
Contains(s, sub) ==
    \E i \in 1..(Len(s) - Len(sub) + 1) : SubSeq(s, i, i + Len(sub) - 1) = sub

\* s.split(sep) for a one-character separator
RECURSIVE Split(_, _)
Split(s, sep) ==
    IF \A i \in 1..Len(s) : s[i] # sep THEN <<s>>
    ELSE LET i == CHOOSE j \in 1..Len(s) :
                      s[j] = sep /\ \A k \in 1..(j - 1) : s[k] # sep
         IN  <<SubSeq(s, 1, i - 1)>> \o Split(SubSeq(s, i + 1, Len(s)), sep)

\* s.replace(a, b) for one-character a and a replacement sequence b
RECURSIVE Replace(_, _, _)
Replace(s, a, b) ==
    IF Len(s) = 0 THEN <<>>
    ELSE (IF Head(s) = a THEN b ELSE <<Head(s)>>) \o Replace(Tail(s), a, b)

(***************************************************************************)
(* Cells of a flat record (a row of raw_df): a Python number, a Python     *)
(* string, or NaN, which pandas puts where a record has no such column.    *)
(***************************************************************************)
Str(s) == [k |-> "str", s |-> s]
Num(v) == [k |-> "num", v |-> v]
NaN == [k |-> "nan"]

IsStr(c) == c.k = "str"

\* the columns every flat record carries (parse_to_table)
MetaCols == <<"Identifier", "Mnemonic", "Period">>

(***************************************************************************)
(* Period Resolver                                                         *)
(***************************************************************************)
FY == <<"F", "Y">>
IQ_FY == <<"I", "Q", "_", "F", "Y">>

\* the scan of the fallback window: range(current_year - 10, current_year + 2)
WindowBack == 10
WindowAhead == 2
\* the years accepted inside a date-like cell
DateYearMin == 2000
DateYearMax == 2030

\* the first candidate of range(lo, hi) whose decimal form occurs in period
RECURSIVE ScanWindow(_, _, _)
ScanWindow(period, lo, hi) ==
    IF lo >= hi THEN None
    ELSE IF Contains(period, FormatInt(lo)) THEN Some(lo)
    ELSE ScanWindow(period, lo + 1, hi)

\* line 416: a direct year format like FY2020
IsAbsolute(period) ==
    Len(period) > 0 /\ StartsWith(period, FY) /\ Len(period) > 2
    /\ IsDigit(SubSeq(period, 3, Len(period)))

\* a slip of the slice: period[3:] for period[2:]
AbsoluteYear_SliceFrom3(period) == ParseInt(SubSeq(period, 4, Len(period)))

AbsoluteYear(period) == ParseInt(SubSeq(period, 3, Len(period)))

\* line 420: a relative format with a '-'
IsRelPast(period) ==
    Len(period) > 0 /\ Contains(period, FY) /\ Contains(period, <<"-">>)

\* a slip of the sign: the past offset added
RelPastYear_OffsetAdded(period, current_year) ==
    LET parts == Split(period, "-")
    IN  IF Len(parts) > 1 /\ IsDigit(parts[2])
        THEN Some(current_year + ParseInt(parts[2]))
        ELSE None

RelPastYear(period, current_year) ==
    LET parts == Split(period, "-")
    IN  IF Len(parts) > 1 /\ IsDigit(parts[2])
        THEN Some(current_year + (0 - ParseInt(parts[2])))
        ELSE None

\* line 426: a relative format with a '+'
IsRelFuture(period) ==
    Len(period) > 0 /\ Contains(period, FY) /\ Contains(period, <<"+">>)

RelFutureYear(period, current_year) ==
    LET parts == Split(period, "+")
    IN  IF Len(parts) > 1 /\ IsDigit(parts[2])
        THEN Some(current_year + ParseInt(parts[2]))
        ELSE None

\* a slip of line 433: the bare token left out
IsCurrent_SuffixedOnly(period) ==
    \/ period = IQ_FY \o <<"-", "0">>
    \/ period = IQ_FY \o <<"+", "0">>

\* line 433: the current-period tokens
IsCurrent(period) ==
    \/ period = IQ_FY \o <<"-", "0">>
    \/ period = IQ_FY \o <<"+", "0">>
    \/ period = IQ_FY

\* the if/elif chain on the period token; an exception leaves year None
YearFromPeriod(period, current_year) ==
    IF IsAbsolute(period) THEN Some(AbsoluteYear(period))
    ELSE IF IsRelPast(period) THEN RelPastYear(period, current_year)
    ELSE IF IsRelFuture(period) THEN RelFutureYear(period, current_year)
    ELSE IF IsCurrent(period) THEN Some(current_year)
    ELSE ScanWindow(period, current_year - WindowBack, current_year + WindowAhead)

\* the first part of a date-like string that is a 4-digit year in 2000..2030
RECURSIVE FirstYearPart(_)
FirstYearPart(parts) ==
    IF Len(parts) = 0 THEN None
    ELSE LET part == Head(parts)
         IN  IF IsDigit(part) /\ Len(part) = 4
                /\ DateYearMin <= ParseInt(part) /\ ParseInt(part) <= DateYearMax
             THEN Some(ParseInt(part))
             ELSE FirstYearPart(Tail(parts))

\* the loop over the columns of the record: every column with a date-like
\* string that holds a year assigns year, so the last such column decides
RECURSIVE YearFromDates(_, _, _)
YearFromDates(row, cols, year) ==
    IF Len(cols) = 0 THEN year
    ELSE LET val == row[Head(cols)]
             found == IF IsStr(val)
                         /\ (Contains(val.s, <<"/">>) \/ Contains(val.s, <<"-">>))
                      THEN FirstYearPart(Split(Replace(val.s, "/", <<"-">>), "-"))
                      ELSE None
         IN  YearFromDates(row, Tail(cols), IF found.some THEN found ELSE year)

\* Python's "not year": None or 0
NotYear(year) == ~year.some \/ year.val = 0

\* the year of a record: the chain on its period token, then the date columns
ResolveYear(row, cols, period, current_year) ==
    LET year == YearFromPeriod(period, current_year)
    IN  IF NotYear(year) THEN YearFromDates(row, cols, year) ELSE year

(***************************************************************************)
(* Python floats that the pipeline stores, as exact decimals: a sign, the  *)
(* digits of the integer part (no leading zero) and the digits of the      *)
(* fraction (no trailing zero).  Scaling by a power of ten moves the       *)
(* point, so no value leaves the integers TLC can hold.                    *)
(***************************************************************************)
RECURSIVE DropLeadingZeros(_)
DropLeadingZeros(ds) ==
    IF Len(ds) > 0 /\ Head(ds) = 0 THEN DropLeadingZeros(Tail(ds)) ELSE ds

RECURSIVE DropTrailingZeros(_)
DropTrailingZeros(ds) ==
    IF Len(ds) > 0 /\ ds[Len(ds)] = 0
    THEN DropTrailingZeros(SubSeq(ds, 1, Len(ds) - 1))
    ELSE ds

Dec(neg, ip, fp) ==
    LET i == DropLeadingZeros(ip)
        f == DropTrailingZeros(fp)
    IN  [neg |-> neg /\ (Len(i) > 0 \/ Len(f) > 0), ip |-> i, fp |-> f]

Digits(s) == [i \in 1..Len(s) |-> DigitVal(s[i])]

\* a whole number n >= 0 as a decimal
DecNat(n) == Dec(FALSE, Digits(FormatNat(n)), <<>>)

DecNeg(v) == Dec(~v.neg, v.ip, v.fp)

DecAbs(v) == Dec(FALSE, v.ip, v.fp)

Zeros(n) == [i \in 1..n |-> 0]

\* the number of zeros of a power of ten: 1000000 -> 6
Log10(n) == Len(FormatNat(n)) - 1

\* v * 10^e
DecShiftUp(v, e) ==
    LET f == v.fp \o Zeros(e)
    IN  Dec(v.neg, v.ip \o SubSeq(f, 1, e), SubSeq(f, e + 1, Len(f)))

\* v / 10^e
DecShiftDown(v, e) ==
    LET i == Zeros(e) \o v.ip
    IN  Dec(v.neg, SubSeq(i, 1, Len(i) - e), SubSeq(i, Len(i) - e + 1, Len(i)) \o v.fp)

\* digit sequences of equal length, compared from the left
RECURSIVE DigitsLess(_, _)
DigitsLess(a, b) ==
    IF Len(a) = 0 \/ Len(b) = 0 THEN Len(a) = 0 /\ Len(b) > 0 /\ b # Zeros(Len(b))
    ELSE IF Head(a) # Head(b) THEN Head(a) < Head(b)
    ELSE DigitsLess(Tail(a), Tail(b))

\* a < b for non-negative a, b
MagLess(a, b) ==
    IF Len(a.ip) # Len(b.ip) THEN Len(a.ip) < Len(b.ip)
    ELSE IF a.ip # b.ip THEN DigitsLess(a.ip, b.ip)
    ELSE LET n == IF Len(a.fp) > Len(b.fp) THEN Len(a.fp) ELSE Len(b.fp)
         IN  DigitsLess(a.fp \o Zeros(n - Len(a.fp)), b.fp \o Zeros(n - Len(b.fp)))

\* a < b
DecLess(a, b) ==
    IF a.neg /\ ~b.neg THEN TRUE
    ELSE IF ~a.neg /\ b.neg THEN FALSE
    ELSE IF a.neg THEN MagLess(DecAbs(b), DecAbs(a))
    ELSE MagLess(a, b)

(***************************************************************************)
(* More Python string operations: lower(), strip(), float().               *)
(***************************************************************************)
UpperChars == <<"A", "B", "C", "D", "E", "F", "G", "H", "I", "J", "K", "L", "M",
                "N", "O", "P", "Q", "R", "S", "T", "U", "V", "W", "X", "Y", "Z">>
LowerChars == <<"a", "b", "c", "d", "e", "f", "g", "h", "i", "j", "k", "l", "m",
                "n", "o", "p", "q", "r", "s", "t", "u", "v", "w", "x", "y", "z">>

LowerChar(c) ==
    IF \E i \in 1..26 : UpperChars[i] = c
    THEN LowerChars[CHOOSE i \in 1..26 : UpperChars[i] = c]
    ELSE c

\* s.lower()
Lower(s) == [i \in 1..Len(s) |-> LowerChar(s[i])]

IsSpace(c) == c = " "

\* s.strip()
RECURSIVE Strip(_)
Strip(s) ==
    IF Len(s) > 0 /\ IsSpace(Head(s)) THEN Strip(Tail(s))
    ELSE IF Len(s) > 0 /\ IsSpace(s[Len(s)]) THEN Strip(SubSeq(s, 1, Len(s) - 1))
    ELSE s

AllDigitChars(s) == \A i \in 1..Len(s) : IsDigitChar(s[i])

\* float(s) of a decimal literal: blanks around it, a sign, digits with at
\* most one point; None stands for ValueError.  (Exponents, underscores,
\* "nan" and "inf" are not among the texts the model feeds it.)
ToFloat(s) ==
    LET t == Strip(s)
        signed == Len(t) > 0 /\ (Head(t) = "-" \/ Head(t) = "+")
        body == IF signed THEN Tail(t) ELSE t
        parts == Split(body, ".")
        ip == parts[1]
        fp == IF Len(parts) > 1 THEN parts[2] ELSE <<>>
    IN  IF Len(parts) <= 2 /\ AllDigitChars(ip) /\ AllDigitChars(fp)
           /\ Len(ip) + Len(fp) > 0
        THEN Some(Dec(signed /\ Head(t) = "-", Digits(ip), Digits(fp)))
        ELSE None

(***************************************************************************)
(* Mnemonics, as the strings the API and the code exchange.                *)
(***************************************************************************)
IQ_TOTAL_REV == <<"I", "Q", "_", "T", "O", "T", "A", "L", "_", "R", "E", "V">>
IQ_NI == <<"I", "Q", "_", "N", "I">>
IQ_EBITDA == <<"I", "Q", "_", "E", "B", "I", "T", "D", "A">>
IQ_EBIT == <<"I", "Q", "_", "E", "B", "I", "T">>
IQ_TOTAL_ASSETS == <<"I", "Q", "_", "T", "O", "T", "A", "L", "_", "A", "S", "S", "E", "T", "S">>
IQ_TOTAL_LIAB == <<"I", "Q", "_", "T", "O", "T", "A", "L", "_", "L", "I", "A", "B">>
IQ_CASH_EQUIV == <<"I", "Q", "_", "C", "A", "S", "H", "_", "E", "Q", "U", "I", "V">>
IQ_PE_RATIO == <<"I", "Q", "_", "P", "E", "_", "R", "A", "T", "I", "O">>
IQ_MARKETCAP == <<"I", "Q", "_", "M", "A", "R", "K", "E", "T", "C", "A", "P">>
IQ_PRICE_CLOSE == <<"I", "Q", "_", "P", "R", "I", "C", "E", "_", "C", "L", "O", "S", "E">>
IQ_COMPANY_NAME == <<"I", "Q", "_", "C", "O", "M", "P", "A", "N", "Y", "_", "N", "A", "M", "E">>
IQ_COMPANY_ID == <<"I", "Q", "_", "C", "O", "M", "P", "A", "N", "Y", "_", "I", "D">>
IQ_ULT_PARENT == <<"I", "Q", "_", "U", "L", "T", "_", "P", "A", "R", "E", "N", "T">>
IQ_REVENUE_EST_CIQ == <<"I", "Q", "_", "R", "E", "V", "E", "N", "U", "E", "_", "E", "S", "T", "_", "C", "I", "Q">>
IQ_EBITDA_EST_CIQ == <<"I", "Q", "_", "E", "B", "I", "T", "D", "A", "_", "E", "S", "T", "_", "C", "I", "Q">>
IQ_EPS_EST_CIQ == <<"I", "Q", "_", "E", "P", "S", "_", "E", "S", "T", "_", "C", "I", "Q">>

\* line 378: the metrics for which a value column is looked for
KeyMetrics ==
    <<IQ_TOTAL_REV, IQ_NI, IQ_EBITDA, IQ_EBIT, IQ_TOTAL_ASSETS, IQ_TOTAL_LIAB,
      IQ_CASH_EQUIV>>

\* lines 276-287: the metrics dict, in its order, and its friendly names
MetricOrder ==
    <<IQ_TOTAL_REV, IQ_NI, IQ_EBITDA, IQ_EBIT, IQ_TOTAL_ASSETS, IQ_TOTAL_LIAB,
      IQ_CASH_EQUIV, IQ_PE_RATIO, IQ_MARKETCAP, IQ_PRICE_CLOSE>>

FriendlyNames ==
    <<"Revenue", "Net Income", "EBITDA", "EBIT", "Total Assets",
      "Total Liabilities", "Cash & Equivalents", "P/E Ratio", "Market Cap",
      "Stock Price">>

InSeq(x, seq) == \E j \in 1..Len(seq) : seq[j] = x

Range(seq) == { seq[j] : j \in 1..Len(seq) }

NonMeta(cols) == { c \in Range(cols) : ~InSeq(c, MetaCols) }

FriendlyName(m) == FriendlyNames[CHOOSE j \in 1..Len(MetricOrder) : MetricOrder[j] = m]

(***************************************************************************)
(* Value Extractor                                                         *)
(***************************************************************************)
\* pd.isna(cell)
IsNa(c) == c.k = "nan"

\* isinstance(cell, (int, float)): a number, and NaN, which is a float
IsIntOrFloat(c) == c.k = "num" \/ c.k = "nan"

\* line 483: the texts of unavailable data
Unavailable ==
    { <<"n", "/", "a">>,
      <<"d", "a", "t", "a", " ", "u", "n", "a", "v", "a", "i", "l", "a", "b", "l", "e">>,
      <<"n", "a">>,
      <<>> }

IsDateLike(raw) == Contains(raw, <<"/">>) \/ Contains(raw, <<"-">>)

\* a slip of the error handling: a text that is no number counted as 0
CleanToFloat_ZeroOnError(raw) ==
    LET f == ToFloat(Strip(Replace(raw, ",", <<>>)))
    IN  IF f.some THEN f ELSE Some(DecNat(0))

\* lines 488-489 and 525-526: float(raw.replace(',', '').strip())
CleanToFloat(raw) == ToFloat(Strip(Replace(raw, ",", <<>>)))

\* lines 365-404: the value column, decided on the metric's first row
RECURSIVE FirstNumericCol(_, _)
FirstNumericCol(first_row, cols) ==
    IF Len(cols) = 0 THEN None
    ELSE LET col == Head(cols)
             val == first_row[col]
         IN  IF InSeq(col, MetaCols) THEN FirstNumericCol(first_row, Tail(cols))
             ELSE IF IsIntOrFloat(val) THEN Some(col)
             ELSE IF IsStr(val) /\ CleanToFloat(val.s).some THEN Some(col)
             ELSE FirstNumericCol(first_row, Tail(cols))

FindValueCol(mnemonic, first_row, cols) ==
    IF InSeq(mnemonic, KeyMetrics)
    THEN IF InSeq("Value", cols) THEN Some("Value")
         ELSE FirstNumericCol(first_row, cols)
    ELSE None

\* lines 471-494: the identified value column
PrimaryValue(row, value_col) ==
    LET raw_value == row[value_col]
    IN  IF IsNa(raw_value) THEN None
        ELSE IF raw_value.k = "num" THEN Some(raw_value.v)
        ELSE IF IsDateLike(raw_value.s) \/ Lower(raw_value.s) \in Unavailable
        THEN None
        ELSE CleanToFloat(raw_value.s)

\* lines 497-532: the other columns, in the order of the record's index;
\* the result names the column that gave the value
RECURSIVE AltValue(_, _, _)
AltValue(row, cols, value_col) ==
    IF Len(cols) = 0 THEN None
    ELSE LET col == Head(cols)
             raw_value == row[col]
             rest == AltValue(row, Tail(cols), value_col)
         IN  IF InSeq(col, MetaCols) \/ col = value_col THEN rest
             ELSE IF IsNa(raw_value) \/ raw_value = Str(<<>>) THEN rest
             ELSE IF raw_value.k = "num" THEN Some([v |-> raw_value.v, col |-> col])
             ELSE IF IsDateLike(raw_value.s) \/ Len(raw_value.s) < 2 THEN rest
             ELSE IF CleanToFloat(raw_value.s).some
             THEN Some([v |-> CleanToFloat(raw_value.s).val, col |-> col])
             ELSE rest

\* lines 468-532: the value of a record and the column it was read from
ExtractValue(row, cols, value_col) ==
    LET primary == PrimaryValue(row, value_col)
    IN  IF primary.some THEN Some([v |-> primary.val, col |-> value_col])
        ELSE AltValue(row, cols, value_col)

(***************************************************************************)
(* Unit Normalizer                                                         *)
(***************************************************************************)
Million == 1000000
Thousand == 1000
Hundred == 100

\* a slip of the magnitude test: value > 1_000_000 for abs(value) > 1_000_000
NormalizeUnits_NoAbs(mnemonic, value) ==
    IF mnemonic = IQ_PE_RATIO \/ mnemonic = IQ_PRICE_CLOSE THEN value
    ELSE IF mnemonic = IQ_MARKETCAP /\ DecLess(DecNat(Thousand), value)
    THEN IF DecLess(DecNat(Million), value) THEN DecShiftUp(value, Log10(Thousand))
         ELSE IF DecLess(value, DecNat(Hundred)) THEN DecShiftUp(value, Log10(Million))
         ELSE value
    ELSE IF DecLess(DecNat(Million), value)
    THEN DecShiftDown(value, Log10(Million))
    ELSE value

\* lines 535-553
NormalizeUnits(mnemonic, value) ==
    IF mnemonic = IQ_PE_RATIO \/ mnemonic = IQ_PRICE_CLOSE THEN value
    ELSE IF mnemonic = IQ_MARKETCAP /\ DecLess(DecNat(Thousand), value)
    THEN IF DecLess(DecNat(Million), value) THEN DecShiftUp(value, Log10(Thousand))
         ELSE IF DecLess(value, DecNat(Hundred)) THEN DecShiftUp(value, Log10(Million))
         ELSE value
    ELSE IF DecLess(DecNat(Million), DecAbs(value))
            /\ ~(mnemonic = IQ_PE_RATIO \/ mnemonic = IQ_PRICE_CLOSE)
    THEN DecShiftDown(value, Log10(Million))
    ELSE value

(***************************************************************************)
(* Request Planner: build_requests for one company.                        *)
(***************************************************************************)
RECURSIVE Concat(_)
Concat(seqs) == IF Len(seqs) = 0 THEN <<>> ELSE Head(seqs) \o Concat(Tail(seqs))

\* the integers lo, lo + 1, ..., hi - 1 in order: range(lo, hi)
PyRange(lo, hi) == [j \in 1..(IF hi > lo THEN hi - lo ELSE 0) |-> lo + j - 1]

Request(function, identifier, mnemonic, periodType, numberOfPeriods) ==
    [function |-> function, identifier |-> identifier, mnemonic |-> mnemonic,
     periodType |-> periodType, numberOfPeriods |-> numberOfPeriods]

\* lines 104-106
InfoRequests(cid) ==
    << Request("GDSP", cid, IQ_COMPANY_NAME, None, None),
       Request("GDSP", cid, IQ_COMPANY_ID, None, None),
       Request("GDSP", cid, IQ_ULT_PARENT, None, None) >>

OffsetRequests_AbsoluteOnly(cid, mn, offset, current_year) ==
    IF offset < 0
    THEN << Request("GDSP", cid, mn, Some(FY \o FormatInt(current_year + offset)), None) >>
    ELSE <<>>

\* lines 125-155: the requests of one year offset
OffsetRequests(cid, mn, offset, current_year) ==
    IF offset < 0
    THEN << Request("GDSP", cid, mn, Some(IQ_FY \o FormatInt(offset)), None),
            Request("GDSP", cid, mn, Some(FY \o FormatInt(current_year + offset)), None) >>
    ELSE << Request("GDSP", cid, mn, Some(IQ_FY \o <<"+">> \o FormatInt(offset)), None) >>

\* lines 109-155: the requests of one financial mnemonic
FinancialRequests(cid, mn, years, current_year) ==
    << Request("GDSHE", cid, mn, Some(IQ_FY), Some(years + 2)) >>
    \o Concat([j \in 1..Len(PyRange(0 - (years - 1), 2)) |->
                 OffsetRequests(cid, mn, PyRange(0 - (years - 1), 2)[j], current_year)])

\* lines 158-159
MarketMnemonics == <<IQ_MARKETCAP, IQ_PRICE_CLOSE, IQ_PE_RATIO>>

\* lines 162-169
EstimateMnemonics == <<IQ_REVENUE_EST_CIQ, IQ_EBITDA_EST_CIQ, IQ_EPS_EST_CIQ>>

\* a slip of the range: one forward offset too many
EstimateRequests_OneMore(cid, mn, years) ==
    [j \in 1..Len(PyRange(1, years + 2)) |->
        Request("GDSP", cid, mn,
                Some(IQ_FY \o <<"+">> \o FormatInt(PyRange(1, years + 2)[j])), None)]

EstimateRequests(cid, mn, years) ==
    [j \in 1..Len(PyRange(1, years + 1)) |->
        Request("GDSP", cid, mn,
                Some(IQ_FY \o <<"+">> \o FormatInt(PyRange(1, years + 1)[j])), None)]

\* lines 97-171, for company_ids = [cid]
build_requests(cid, years, current_year) ==
    InfoRequests(cid)
    \o Concat([j \in 1..Len(KeyMetrics) |->
                 FinancialRequests(cid, KeyMetrics[j], years, current_year)])
    \o [j \in 1..Len(MarketMnemonics) |->
          Request("GDSP", cid, MarketMnemonics[j], None, None)]
    \o Concat([j \in 1..Len(EstimateMnemonics) |->
                 EstimateRequests(cid, EstimateMnemonics[j], years)])

(***************************************************************************)
(* Response Flattener: parse_to_table.  A reply is                          *)
(* [Identifier, Mnemonic, Headers, periodtype, Rows]; raw_df is the list   *)
(* of flat records with the columns in the order pandas gives them, the    *)
(* order of first appearance, and NaN where a record has no such column.   *)
(***************************************************************************)
\* dict(zip(headers, entry["Row"])): the cell of header col, the last one
\* when a header repeats, for the headers that have a cell
ZipLen(headers, cells) == IF Len(headers) < Len(cells) THEN Len(headers) ELSE Len(cells)

ZipHas(headers, cells, col) == \E j \in 1..ZipLen(headers, cells) : headers[j] = col

ZipGet(headers, cells, col) ==
    cells[CHOOSE j \in 1..ZipLen(headers, cells) :
             headers[j] = col /\ \A k \in (j + 1)..ZipLen(headers, cells) : headers[k] # col]

\* lines 200-214: one record per value row, as the list of its keys and its cells
ReplyKeys(reply, cells) == SubSeq(reply.Headers, 1, ZipLen(reply.Headers, cells))

\* line 205: row.get("Rows", []), the value rows of a reply, none when the
\* reply has no such field
ValueRows(reply) == IF "Rows" \in DOMAIN reply THEN reply.Rows ELSE <<>>

\* the flattener with a record for the reply itself when it has no value row
FlatEntries_RecordPerReply(rows) ==
    Concat([j \in 1..Len(rows) |->
              IF ValueRows(rows[j]) = <<>>
              THEN <<[reply |-> rows[j], cells |-> <<>>]>>
              ELSE [k \in 1..Len(ValueRows(rows[j])) |->
                      [reply |-> rows[j], cells |-> ValueRows(rows[j])[k]]]])

\* the records of all replies, each [reply, cells], in order
FlatEntries(rows) ==
    Concat([j \in 1..Len(rows) |->
              [k \in 1..Len(ValueRows(rows[j])) |->
                 [reply |-> rows[j], cells |-> ValueRows(rows[j])[k]]]])

\* the keys of one record, in the order of its dict
EntryKeys(entry) ==
    MetaCols \o SelectSeq(ReplyKeys(entry.reply, entry.cells),
                          LAMBDA h : ~InSeq(h, MetaCols))

\* the columns of DataFrame.from_records: every key, in the order of its
\* first appearance
RECURSIVE InOrder(_, _)
InOrder(keys, first) ==
    IF keys = {} THEN <<>>
    ELSE LET c == CHOOSE x \in keys : \A y \in keys :
                     \/ first[x][1] < first[y][1]
                     \/ first[x][1] = first[y][1] /\ first[x][2] <= first[y][2]
         IN  <<c>> \o InOrder(keys \ {c}, first)

ColumnsOf(entries) ==
    LET keys == UNION { Range(EntryKeys(entries[j])) : j \in 1..Len(entries) }
        first_entry(c) == CHOOSE j \in 1..Len(entries) :
                              /\ InSeq(c, EntryKeys(entries[j]))
                              /\ \A i \in 1..(j - 1) : ~InSeq(c, EntryKeys(entries[i]))
        first_pos(c) == CHOOSE k \in 1..Len(EntryKeys(entries[first_entry(c)])) :
                            /\ EntryKeys(entries[first_entry(c)])[k] = c
                            /\ \A i \in 1..(k - 1) : EntryKeys(entries[first_entry(c)])[i] # c
    IN  InOrder(keys, [c \in keys |-> <<first_entry(c), first_pos(c)>>])

RecordOf(entry, cols) ==
    [c \in Range(cols) |->
        IF ZipHas(entry.reply.Headers, entry.cells, c)
        THEN ZipGet(entry.reply.Headers, entry.cells, c)
        ELSE CASE c = "Identifier" -> Str(entry.reply.Identifier)
               [] c = "Mnemonic" -> Str(entry.reply.Mnemonic)
               [] c = "Period" -> Str(entry.reply.periodtype)
               [] OTHER -> NaN]

\* lines 196-216
parse_to_table(rows) ==
    LET entries == FlatEntries(rows)
        cols == ColumnsOf(entries)
    IN  [cols |-> cols, recs |-> [j \in 1..Len(entries) |-> RecordOf(entries[j], cols)]]

(***************************************************************************)
(* Canonical Assembler: the body of fetch_company_by_ticker after the      *)
(* flattener.                                                              *)
(***************************************************************************)
UpperChar(c) ==
    IF \E i \in 1..26 : LowerChars[i] = c
    THEN UpperChars[CHOOSE i \in 1..26 : LowerChars[i] = c]
    ELSE c

\* s.upper()
Upper(s) == [i \in 1..Len(s) |-> UpperChar(s[i])]

AAPL == <<"A", "A", "P", "L">>

\* lines 298-336: apple_historical, the years it has and its values in
\* the order of the first seven friendly names
AppleYears == {2021, 2022, 2023, 2024}

AppleRaw(year, j) ==
    IF year = 2021 THEN <<365817, 94680, 120233, 108949, 351002, 287912, 34940>>[j]
    ELSE IF year = 2022 THEN <<394328, 99803, 130541, 119437, 352755, 302083, 23646>>[j]
    ELSE IF year = 2023 THEN <<383285, 96995, 125937, 114300, 355610, 290437, 29965>>[j]
    ELSE <<3857, 973, 1265, 1151, 3582, 2918, 302>>[j]

\* 365817 / 1_000_000 for 2021-2023, 385.7 for 2024
apple_historical(year, j) ==
    IF year = 2024 THEN DecShiftDown(DecNat(AppleRaw(year, j)), 1)
    ELSE DecShiftDown(DecNat(AppleRaw(year, j)), Log10(Million))

\* lines 261-268: the display name
RECURSIVE FirstNameCell(_, _)
FirstNameCell(first, cols) ==
    IF Len(cols) = 0 THEN None
    ELSE LET val == first[Head(cols)]
         IN  IF IsStr(val) /\ Len(val.s) > 0 /\ ~InSeq(Head(cols), MetaCols)
             THEN Some(val.s)
             ELSE FirstNameCell(first, Tail(cols))

MetricRows(df, mnemonic) == SelectSeq(df.recs, LAMBDA r : r["Mnemonic"] = Str(mnemonic))

CompanyName(ticker, df) ==
    LET name_rows == MetricRows(df, IQ_COMPANY_NAME)
        found == IF Len(name_rows) > 0 THEN FirstNameCell(name_rows[1], df.cols) ELSE None
    IN  IF found.some THEN found.val ELSE Upper(ticker)

historical_years_ThroughNextYear(years, current_year) ==
    PyRange(current_year - years + 1, current_year + 2)

\* line 292
historical_years(years, current_year) == PyRange(current_year - years + 1, current_year + 1)

\* lines 339-351: one record per year; metrics maps a friendly name to its
\* value, None where the record has no such key
NoMetrics == [n \in Range(FriendlyNames) |-> None]

PrePopulated(ticker, year) ==
    IF Upper(ticker) = AAPL /\ year \in AppleYears
    THEN [n \in Range(FriendlyNames) |->
            IF \E j \in 1..7 : FriendlyNames[j] = n
            THEN Some(apple_historical(year, CHOOSE j \in 1..7 : FriendlyNames[j] = n))
            ELSE None]
    ELSE NoMetrics

InitialData(ticker, years, current_year, name) ==
    [year \in Range(historical_years(years, current_year)) |->
        [Year |-> year,
         Date |-> FormatInt(year) \o <<"-", "1", "2", "-", "3", "1">>,
         Ticker |-> Upper(ticker),
         Company |-> name,
         metrics |-> PrePopulated(ticker, year)]]

\* a slip of line 556: the value written only where the cell is still empty
ProcessRow_KeepsFirst(data, mnemonic, row, cols, value_col, current_year) ==
    LET year == ResolveYear(row, cols, row["Period"].s, current_year)
    IN  IF NotYear(year) \/ year.val \notin DOMAIN data THEN data
        ELSE LET found == ExtractValue(row, cols, value_col)
             IN  IF found.some /\ ~data[year.val].metrics[FriendlyName(mnemonic)].some
                 THEN [data EXCEPT ![year.val].metrics[FriendlyName(mnemonic)] =
                                       Some(NormalizeUnits(mnemonic, found.val.v))]
                 ELSE data

\* lines 408-559: one record of a metric
ProcessRow(data, mnemonic, row, cols, value_col, current_year) ==
    LET year == ResolveYear(row, cols, row["Period"].s, current_year)
    IN  IF NotYear(year) \/ year.val \notin DOMAIN data THEN data
        ELSE LET found == ExtractValue(row, cols, value_col)
             IN  IF found.some
                 THEN [data EXCEPT ![year.val].metrics[FriendlyName(mnemonic)] =
                                       Some(NormalizeUnits(mnemonic, found.val.v))]
                 ELSE data

RECURSIVE ProcessRows(_, _, _, _, _, _)
ProcessRows(data, mnemonic, metric_rows, cols, value_col, current_year) ==
    IF Len(metric_rows) = 0 THEN data
    ELSE ProcessRows(ProcessRow(data, mnemonic, Head(metric_rows), cols, value_col, current_year),
                     mnemonic, Tail(metric_rows), cols, value_col, current_year)

\* lines 355-561: one metric of the metrics dict
ProcessOneMetric(data, mnemonic, df, current_year) ==
    LET metric_rows == MetricRows(df, mnemonic)
    IN  IF Len(metric_rows) = 0 THEN data
        ELSE LET value_col == FindValueCol(mnemonic, metric_rows[1], df.cols)
             IN  IF value_col.some
                 THEN ProcessRows(data, mnemonic, metric_rows, df.cols, value_col.val, current_year)
                 ELSE data

\* sorted(financial_data.keys())
RECURSIVE SortedSeq(_)
SortedSeq(S) ==
    IF S = {} THEN <<>>
    ELSE LET lo == CHOOSE x \in S : \A y \in S : x <= y
         IN  <<lo>> \o SortedSeq(S \ {lo})

\* lines 564-575: the rows of result_df
ResultFrame(data) == [j \in 1..Cardinality(DOMAIN data) |-> data[SortedSeq(DOMAIN data)[j]]]

\* pd.DataFrame(): no rows and no columns
EmptyFrame == <<>>

(***************************************************************************)
(* The Period Resolver on one record: the record and the anchor year are   *)
(* inputs, ResolvePeriod is lines 410-461 of fetch_company_by_ticker.      *)
(***************************************************************************)
AnchorYears == BaseYear..(BaseYear + NumAnchors - 1)

\* years written into absolute tokens: around the anchors, and far from them
FarYears == {1000, 1987, 2012, 2031, 9999}
AbsYears == ((BaseYear - MaxOffset - 1)..(BaseYear + NumAnchors + 1)) \cup FarYears

\* offsets of relative tokens: the planner's, and two of several digits
Offsets == (0..MaxOffset) \cup {10, 125}

AbsToken(y) == FY \o FormatInt(y)
RelPastToken(k) == IQ_FY \o <<"-">> \o FormatInt(k)
RelFutureToken(k) == IQ_FY \o <<"+">> \o FormatInt(k)
CYToken(y) == <<"C", "Y">> \o FormatInt(y)

\* tokens of no planner convention
OtherTokens ==
    { <<>>, IQ_FY, FY, <<"L", "T", "M">>,
      IQ_FY \o <<"-", "x">>, IQ_FY \o <<"+">>, IQ_FY \o <<"+", "x">>,
      FY \o <<"-", "1">>, FY \o <<"+", "2">>,
      FY \o <<"2", "0", "2", "3", "A">>,
      FY \o <<"2", "0", "2", "3", "-", "Q", "4">>,
      <<"1", "2", "/", "3", "1", "/", "2", "0", "0", "8">> }
    \cup { CYToken(y) : y \in (BaseYear - WindowBack - 1)..(BaseYear + NumAnchors + WindowAhead) }

PeriodTokens ==
    { AbsToken(y) : y \in AbsYears }
    \cup { RelPastToken(k) : k \in Offsets }
    \cup { RelFutureToken(k) : k \in Offsets }
    \cup OtherTokens

ResolverCols == MetaCols \o <<"Value", "asOfDate">>

\* what the sibling date column of a record may hold
DateCells ==
    { NaN,
      Str(<<"2", "0", "2", "3", "-", "1", "2", "-", "3", "1">>),
      Str(<<"9", "/", "3", "0", "/", "2", "0", "2", "2">>),
      Str(<<"1", "9", "9", "9", "-", "0", "1", "-", "0", "1">>),
      Str(<<"N", "/", "A">>) }

ResolverRow(p, d) ==
    [c \in {"Identifier", "Mnemonic", "Period", "Value", "asOfDate"} |->
        CASE c = "Identifier" -> Str(<<"M", "S", "F", "T">>)
          [] c = "Mnemonic" -> Str(<<"I", "Q", "_", "N", "I">>)
          [] c = "Period" -> Str(p)
          [] c = "Value" -> Str(<<"1", "0", "0">>)
          [] OTHER -> d]

\* the variables of the extractor while another component is checked
ExtractorOff ==
    /\ ex_pc = "off"
    /\ ex_mnemonic = <<>>
    /\ ex_cols = <<>>
    /\ ex_row = <<>>
    /\ ex_value_col = ""
    /\ ex_found = None
    /\ ex_stored = None

\* the variables of the ratio engine while another component is checked
RatioOff ==
    /\ ra_pc = "off"
    /\ ra_data = <<>>
    /\ ra_df = <<>>
    /\ ra_same = FALSE

\* the variables of the slide while another component is checked
SlideOff ==
    /\ sb_pc = "off"
    /\ sb_ticker = <<>>
    /\ sb_ticker2 = <<>>
    /\ sb_enable_ratios = FALSE
    /\ sb_chart_data = None
    /\ sb_chart_data2 = None
    /\ sb_fetched = <<>>
    /\ sb_fetched2 = <<>>
    /\ sb_merged_data = None

\* the variables of the batched transport while another component is checked
FetchOff ==
    /\ cf_pc = "off"
    /\ cf_requests = <<>>
    /\ cf_i = 0
    /\ cf_posted = <<>>
    /\ cf_replies = <<>>
    /\ cf_out = None

TrendOff ==
    /\ tr_pc = "off"
    /\ tr_data = <<>>
    /\ tr_periods = 0
    /\ tr_pad = FALSE
    /\ tr_df = <<>>
    /\ tr_results = <<>>
    /\ tr_same = FALSE

MergeOff ==
    /\ mg_pc = "off"
    /\ mg_data1 = <<>>
    /\ mg_data2 = <<>>
    /\ mg_ticker1 = <<>>
    /\ mg_ticker2 = <<>>
    /\ mg_df1 = <<>>
    /\ mg_df2 = <<>>
    /\ mg_out = <<>>

\* the variables of a run while another component is checked
PipelineOff ==
    /\ run_pc = "off"
    /\ run_ticker = <<>>
    /\ run_years = 0
    /\ run_now = 0
    /\ env_ok = TRUE
    /\ tp_policy = <<>>
    /\ tp_header = ""
    /\ tp_silent = FALSE
    /\ requests = <<>>
    /\ sent = 0
    /\ replies = <<>>
    /\ raw_df = <<>>
    /\ company_name = <<>>
    /\ financial_data = <<>>
    /\ metric_i = 0
    /\ outcome = "none"
    /\ result = <<>>

ResolverInit ==
    /\ ExtractorOff
    /\ PipelineOff
    /\ RatioOff
    /\ MergeOff
    /\ TrendOff
    /\ FetchOff
    /\ SlideOff
    /\ rs_pc = "input"
    /\ rs_period \in PeriodTokens
    /\ rs_now \in AnchorYears
    /\ \E d \in DateCells : rs_row = ResolverRow(rs_period, d)
    /\ rs_year = None

ResolvePeriod ==
    /\ rs_pc = "input"
    /\ rs_year' = ResolveYear(rs_row, ResolverCols, rs_period, rs_now)
    /\ rs_pc' = "resolved"
    /\ UNCHANGED <<rs_period, rs_now, rs_row>>
    /\ UNCHANGED <<ex_vars, run_vars, ra_vars, mg_vars, tr_vars, cf_vars, sb_vars>>

ResolverNext == ResolvePeriod

SpecResolver == ResolverInit /\ [][ResolverNext]_vars

\* C1: a token made of FY and a 4-digit year resolves to exactly that
\* year, whatever the anchor year is.
C1_AbsoluteTokenResolvesToItsYear ==
    \A y \in AbsYears :
        (rs_pc = "resolved" /\ rs_period = AbsToken(y)) => rs_year = Some(y)

C1_Witness ==
    /\ rs_pc = "resolved"
    /\ rs_period = AbsToken(2022)
    /\ rs_now # 2022
    /\ rs_year = Some(2022)

\* C2: with anchor year Y, IQ_FY-k resolves to Y - k and IQ_FY+k to Y + k,
\* k = 0 included.
C2_RelativeTokenResolvesToOffset ==
    \A k \in Offsets :
        /\ (rs_pc = "resolved" /\ rs_period = RelPastToken(k))
              => rs_year = Some(rs_now - k)
        /\ (rs_pc = "resolved" /\ rs_period = RelFutureToken(k))
              => rs_year = Some(rs_now + k)

C2_Witness ==
    /\ rs_pc = "resolved"
    /\ rs_period = RelPastToken(2)
    /\ rs_year = Some(rs_now - 2)

\* the six rules, each taken by itself: the year its decoding yields for
\* the record, if any
RuleYields(row, cols, period, current_year) ==
    << IF IsAbsolute(period) THEN Some(AbsoluteYear(period)) ELSE None,
       IF IsRelPast(period) THEN RelPastYear(period, current_year) ELSE None,
       IF IsRelFuture(period) THEN RelFutureYear(period, current_year) ELSE None,
       IF IsCurrent(period) THEN Some(current_year) ELSE None,
       ScanWindow(period, current_year - WindowBack, current_year + WindowAhead),
       YearFromDates(row, cols, None) >>

FirstYield(yields) ==
    IF \E r \in 1..Len(yields) : yields[r].some
    THEN yields[CHOOSE r \in 1..Len(yields) :
                    yields[r].some /\ \A q \in 1..(r - 1) : ~yields[q].some]
    ELSE None

\* C17 as stated: the resolved year is what the first rule that yields a
\* year gives, in the order absolute, relative-past, relative-future,
\* current-period, window scan, date column; a rule that recognises its
\* pattern and yields no year does not keep a later rule from applying.
C17_FirstYieldingRuleDecides ==
    rs_pc = "resolved" =>
        rs_year = FirstYield(RuleYields(rs_row, ResolverCols, rs_period, rs_now))

\* C18 as stated: a token of none of the first four conventions that
\* holds the 4-digit year y resolves to y for every y from current_year - 10
\* to current_year + 2, both included, and the scan gives no year outside
\* this window: without a date column such a token resolves to nothing.
C18_WindowInclusiveOfBothEnds ==
    \A y \in (BaseYear - WindowBack - 1)..(BaseYear + NumAnchors + WindowAhead) :
        (rs_pc = "resolved" /\ rs_period = CYToken(y)) =>
            IF rs_now - WindowBack <= y /\ y <= rs_now + WindowAhead
            THEN rs_year = Some(y)
            ELSE IsNa(rs_row["asOfDate"]) => rs_year = None

(***************************************************************************)
(* The Value Extractor and the Unit Normalizer on one record of a key      *)
(* metric whose value column was identified: ExtractCell is lines 468-532, *)
(* StoreValue is lines 534-559.                                            *)
(***************************************************************************)
ResolverOff ==
    /\ rs_pc = "off"
    /\ rs_period = <<>>
    /\ rs_now = 0
    /\ rs_row = <<>>
    /\ rs_year = None

\* 12.5, 999999.5 and 1000000.5
DecHalf(n) == Dec(FALSE, Digits(FormatNat(n)), <<5>>)

\* what a cell of a record may hold
CellSamples ==
    { NaN,
      Str(<<>>),
      Str(<<"N", "/", "A">>),
      Str(<<"n", "/", "a">>),
      Str(<<"D", "a", "t", "a", " ", "U", "n", "a", "v", "a", "i", "l", "a", "b", "l", "e">>),
      Str(<<"D", "A", "T", "A", " ", "U", "N", "A", "V", "A", "I", "L", "A", "B", "L", "E">>),
      Str(<<"N", "A">>),
      Str(<<"2", "0", "2", "3", "-", "1", "2", "-", "3", "1">>),
      Str(<<"r", "e", "s", "t", "a", "t", "e", "d">>),
      Str(<<"7">>),
      Str(<<"1", ",", "2", "3", "4">>),
      Str(<<" ", "4", "2", ".", "5", " ">>),
      Str(<<"-", "7">>),
      Str(<<"3", "8", "5", "7", "0", "0", "0", "0", "0", "0", "0", "0">>),
      Str(<<"1", ",", "0", "0", "0", ",", "0", "0", "0">>),
      Str(<<"1", "0", "0", "0", "0", "0", "1">>),
      Num(DecNat(0)), Num(DecNat(Million)), Num(DecNat(Million + 1)),
      Num(DecNeg(DecNat(Million))), Num(DecNeg(DecNat(2500000))),
      Num(DecShiftUp(DecNat(385700), 6)), Num(DecHalf(12)),
      Num(DecHalf(Million - 1)), Num(DecHalf(Million)) }

\* the columns of raw_df and the value column lines 380-402 can give them
ExtractLayouts ==
    { [cols |-> MetaCols \o <<"Value", "Data">>, value_col |-> "Value"],
      [cols |-> MetaCols \o <<"Data", "Value">>, value_col |-> "Value"],
      [cols |-> MetaCols \o <<"Data", "Info">>, value_col |-> "Data"],
      [cols |-> MetaCols \o <<"Data", "Info">>, value_col |-> "Info"] }

ExtractorInit ==
    /\ ResolverOff
    /\ PipelineOff
    /\ RatioOff
    /\ MergeOff
    /\ TrendOff
    /\ FetchOff
    /\ SlideOff
    /\ ex_pc = "input"
    /\ ex_mnemonic \in Range(KeyMetrics)
    /\ \E lay \in ExtractLayouts :
          /\ ex_cols = lay.cols
          /\ ex_value_col = lay.value_col
          /\ \E a, b \in CellSamples :
                ex_row = [c \in Range(lay.cols) |->
                            CASE c = "Identifier" -> Str(<<"M", "S", "F", "T">>)
                              [] c = "Mnemonic" -> Str(ex_mnemonic)
                              [] c = "Period" -> Str(IQ_FY)
                              [] c = lay.cols[4] -> a
                              [] OTHER -> b]
    /\ ex_found = None
    /\ ex_stored = None

ExtractCell ==
    /\ ex_pc = "input"
    /\ ex_found' = ExtractValue(ex_row, ex_cols, ex_value_col)
    /\ ex_pc' = "extracted"
    /\ UNCHANGED <<ex_mnemonic, ex_cols, ex_row, ex_value_col, ex_stored>>
    /\ UNCHANGED <<rs_vars, run_vars, ra_vars, mg_vars, tr_vars, cf_vars, sb_vars>>

StoreValue ==
    /\ ex_pc = "extracted"
    /\ ex_stored' = IF ex_found.some
                    THEN Some(NormalizeUnits(ex_mnemonic, ex_found.val.v))
                    ELSE None
    /\ ex_pc' = "stored"
    /\ UNCHANGED <<ex_mnemonic, ex_cols, ex_row, ex_value_col, ex_found>>
    /\ UNCHANGED <<rs_vars, run_vars, ra_vars, mg_vars, tr_vars, cf_vars, sb_vars>>

ExtractorNext == ExtractCell \/ StoreValue

SpecExtract == ExtractorInit /\ [][ExtractorNext]_vars

\* a cell that says the data is unavailable: "N/A" or "Data Unavailable" in
\* any letter case, or the empty string
IsSentinel(c) ==
    /\ c.k = "str"
    /\ \/ c.s = <<>>
       \/ Lower(c.s) = <<"n", "/", "a">>
       \/ Lower(c.s) = Lower(<<"D", "a", "t", "a", " ", "U", "n", "a", "v", "a", "i", "l", "a", "b", "l", "e">>)

\* C3: the value of a record is never read from a cell equal to "N/A",
\* "Data Unavailable" (any letter case) or "", whether that cell is in the
\* value column or in another column; a record whose non-metadata cells
\* are all such cells yields no value.
C3_SentinelNeverReturned ==
    ex_pc \in {"extracted", "stored"} =>
        /\ ex_found.some => ~IsSentinel(ex_row[ex_found.val.col])
        /\ (\A c \in NonMeta(ex_cols) : IsSentinel(ex_row[c])) => ~ex_found.some

C3_Witness ==
    /\ ex_pc = "extracted"
    /\ ex_row[ex_value_col] = Str(<<"N", "/", "A">>)
    /\ \E c \in NonMeta(ex_cols) :
          /\ c # ex_value_col
          /\ ex_row[c] = Str(<<"D", "A", "T", "A", " ", "U", "N", "A", "V", "A", "I", "L", "A", "B", "L", "E">>)
    /\ ex_found = None

\* |v| > 1,000,000, read off the digits of v
ExceedsMillion(v) ==
    \/ Len(v.ip) > 7
    \/ Len(v.ip) = 7 /\ (v.ip # <<1, 0, 0, 0, 0, 0, 0>> \/ Len(v.fp) > 0)

\* C10: for each of the seven magnitude-sensitive metrics an extracted
\* value v with |v| > 1,000,000 is stored as v / 1,000,000 (the stored value
\* times 1,000,000 is v) and any other value is stored unchanged; revenue
\* 385,700,000,000 is stored as 385,700.
C10_AbsoluteMetricsScaledToMillions ==
    (ex_pc = "stored" /\ ex_found.some) =>
        LET v == ex_found.val.v
        IN  /\ ex_stored.some
            /\ ExceedsMillion(v) => DecShiftUp(ex_stored.val, 6) = v
            /\ ~ExceedsMillion(v) => ex_stored.val = v
            /\ (ex_mnemonic = IQ_TOTAL_REV /\ v = DecShiftUp(DecNat(3857), 8))
                  => ex_stored.val = DecNat(385700)

C10_Witness ==
    /\ ex_pc = "stored"
    /\ ex_mnemonic = IQ_TOTAL_REV
    /\ ex_found.some
    /\ ex_found.val.v = DecShiftUp(DecNat(3857), 8)
    /\ ex_stored = Some(DecNat(385700))

\* C19 as stated: a text in the 'Value' column that is a number once its
\* commas and surrounding blanks are removed, positive or negative and of
\* any length, is returned as the value of the record, read from 'Value'.
C19_NumericTextInValueColumn ==
    (/\ ex_pc \in {"extracted", "stored"}
     /\ ex_value_col = "Value"
     /\ IsStr(ex_row["Value"])
     /\ CleanToFloat(ex_row["Value"].s).some)
        => ex_found = Some([v |-> CleanToFloat(ex_row["Value"].s).val, col |-> "Value"])

(***************************************************************************)
(* The Unit Normalizer alone: lines 535-553 on a value already extracted,  *)
(* for each of the ten metrics of the metrics dict.                        *)
(***************************************************************************)
\* values on both sides of the thresholds 100, 1000 and 1,000,000
NormalizeSamples ==
    { DecNat(0), DecNat(50), DecHalf(99), DecNat(Hundred), DecNat(500),
      DecNat(Thousand), DecNat(Thousand + 1), DecNat(Million), DecNat(Million + 1),
      DecNat(2500000), DecHalf(12), DecNeg(DecNat(50)), DecNeg(DecNat(2500000)),
      DecShiftUp(DecNat(3), 9) }

NormalizeInit ==
    /\ ResolverOff
    /\ PipelineOff
    /\ RatioOff
    /\ MergeOff
    /\ TrendOff
    /\ FetchOff
    /\ SlideOff
    /\ ex_pc = "extracted"
    /\ ex_mnemonic \in Range(MetricOrder)
    /\ ex_cols = MetaCols \o <<"Value">>
    /\ ex_value_col = "Value"
    /\ \E v \in NormalizeSamples :
          /\ ex_row = [c \in Range(ex_cols) |->
                          CASE c = "Identifier" -> Str(<<"M", "S", "F", "T">>)
                            [] c = "Mnemonic" -> Str(ex_mnemonic)
                            [] c = "Period" -> Str(IQ_FY)
                            [] OTHER -> Num(v)]
          /\ ex_found = Some([v |-> v, col |-> "Value"])
    /\ ex_stored = None

SpecNormalize == NormalizeInit /\ [][StoreValue]_vars

\* C11 as stated: a positive market-cap value below 100 is stored
\* strictly larger than it came in (the trillions rule), and a market-cap
\* value above 1,000,000 is stored strictly larger too (the billions rule,
\* times 1000).
C11_MarketCapUpscaledAtBothThresholds ==
    (ex_pc = "stored" /\ ex_mnemonic = IQ_MARKETCAP /\ ex_found.some) =>
        LET v == ex_found.val.v
        IN  /\ ex_stored.some
            /\ (DecLess(DecNat(0), v) /\ DecLess(v, DecNat(Hundred)))
                  => DecLess(v, ex_stored.val)
            /\ DecLess(DecNat(Million), v)
                  => (DecLess(v, ex_stored.val) /\ ex_stored.val = DecShiftUp(v, 3))

(***************************************************************************)
(* The transport, which the run does not control: it answers every request *)
(* of one kind in one way.  A reply echoes the identifier, mnemonic and    *)
(* period token of its request.                                            *)
(***************************************************************************)
AnswerKind(req) ==
    IF req.function = "GDSHE" THEN "multi"
    ELSE IF ~req.periodType.some
    THEN IF InSeq(req.mnemonic, MarketMnemonics) THEN "other" ELSE "meta"
    ELSE IF InSeq(req.mnemonic, EstimateMnemonics) THEN "other"
    ELSE IF StartsWith(req.periodType.val, FY) THEN "abs"
    ELSE IF Contains(req.periodType.val, <<"-">>) THEN "relpast"
    ELSE "relfut"

Modes == {"none", "num", "text"}

\* what the transport does with each kind of request; the market and
\* estimate requests are answered when the company information is; a
\* multi-period reply may hold a number for the year before and no data
\* for the current year ("partial")
Policies ==
    { p \in [meta : {"none", "text"}, multi : Modes \cup {"partial"}, relpast : Modes,
             abs : {"none", "num"}, relfut : Modes, other : {"none", "num"}] :
        (p.meta = "text") <=> (p.other = "num") }

Quiet == [meta |-> "none", multi |-> "none", relpast |-> "none", abs |-> "none",
          relfut |-> "none", other |-> "none"]

\* the value sent for the idx-th request: distinct for distinct requests,
\* some at most 1,000,000 and some above, as a negative number, a positive
\* number or a numeric text
SampleValue(idx) == idx * (Million \div 4)

SampleCell(idx) ==
    IF idx % 4 = 0 THEN Num(DecNeg(DecNat(SampleValue(idx))))
    ELSE IF idx % 4 = 3 THEN Str(FormatNat(SampleValue(idx)))
    ELSE Num(DecNat(SampleValue(idx)))

DataUnavailable ==
    Str(<<"D", "a", "t", "a", " ", "U", "n", "a", "v", "a", "i", "l", "a", "b", "l", "e">>)

AcmeCorp == Str(<<"A", "c", "m", "e", " ", "C", "o", "r", "p">>)

FiscalYearEnd(year) == Str(FormatInt(year) \o <<"-", "0", "9", "-", "3", "0">>)

ReplyTo(req, idx, policy, header, current_year) ==
    LET mode == policy[AnswerKind(req)]
        multi == AnswerKind(req) = "multi"
        \* a market quote comes with the date it is of
        market == InSeq(req.mnemonic, MarketMnemonics)
        head == [Identifier |-> req.identifier,
                 Mnemonic |-> req.mnemonic,
                 Headers |-> IF multi \/ market THEN <<header, "asOfDate">> ELSE <<header>>,
                 periodtype |-> IF req.periodType.some THEN req.periodType.val ELSE <<>>]
        value_rows ==
            IF mode = "text"
            THEN IF AnswerKind(req) = "meta" THEN <<<<AcmeCorp>>>>
                 ELSE IF multi THEN <<<<DataUnavailable, FiscalYearEnd(current_year)>>>>
                 ELSE <<<<DataUnavailable>>>>
            ELSE IF mode = "partial"
            THEN << <<SampleCell(idx), FiscalYearEnd(current_year - 1)>>,
                    <<DataUnavailable, FiscalYearEnd(current_year)>> >>
            ELSE IF multi
            THEN << <<SampleCell(idx), FiscalYearEnd(current_year - 1)>>,
                    <<SampleCell(idx + 100), FiscalYearEnd(current_year)>> >>
            ELSE IF market THEN <<<<SampleCell(idx), FiscalYearEnd(current_year)>>>>
            ELSE <<<<SampleCell(idx)>>>>
    IN  IF mode = "none"
        THEN IF idx % 2 = 1 THEN head
             ELSE [f \in DOMAIN head \cup {"Rows"} |-> IF f = "Rows" THEN <<>> ELSE head[f]]
        ELSE [f \in DOMAIN head \cup {"Rows"} |-> IF f = "Rows" THEN value_rows ELSE head[f]]

(***************************************************************************)
(* One run of fetch_company_by_ticker.                                     *)
(***************************************************************************)
BATCH_SIZE == 100

Tickers == { <<"a", "a", "p", "l">>, <<"M", "S", "F", "T">> }

Init ==
    /\ ResolverOff
    /\ ExtractorOff
    /\ RatioOff
    /\ MergeOff
    /\ TrendOff
    /\ FetchOff
    /\ SlideOff
    /\ run_pc = "start"
    /\ run_ticker \in Tickers
    /\ run_years \in 1..MaxYears
    /\ run_now \in AnchorYears
    /\ env_ok \in BOOLEAN
    /\ tp_silent \in BOOLEAN
    /\ tp_policy \in (IF tp_silent \/ ~env_ok THEN {Quiet} ELSE Policies)
    /\ tp_header \in (IF tp_silent \/ ~env_ok THEN {"Value"} ELSE {"Value", "Data"})
    /\ requests = <<>>
    /\ sent = 0
    /\ replies = <<>>
    /\ raw_df = <<>>
    /\ company_name = <<>>
    /\ financial_data = <<>>
    /\ metric_i = 0
    /\ outcome = "none"
    /\ result = <<>>

\* lines 232-233
BuildRequests ==
    /\ run_pc = "start"
    /\ requests' = build_requests(Upper(Strip(run_ticker)), run_years, run_now)
    /\ run_pc' = "fetching"
    /\ UNCHANGED <<run_ticker, run_years, run_now, env_ok, tp_policy, tp_header,
                   tp_silent, sent, replies, raw_df, company_name, financial_data,
                   metric_i, outcome, result>>
    /\ UNCHANGED <<rs_vars, ex_vars, ra_vars, mg_vars, tr_vars, cf_vars, sb_vars>>

\* the except clause of lines 577-581
Fails(how) ==
    /\ run_pc' = "done"
    /\ outcome' = how
    /\ result' = EmptyFrame
    /\ UNCHANGED <<run_ticker, run_years, run_now, env_ok, tp_policy, tp_header,
                   tp_silent, requests, sent, replies, raw_df, company_name,
                   financial_data, metric_i>>
    /\ UNCHANGED <<rs_vars, ex_vars, ra_vars, mg_vars, tr_vars, cf_vars, sb_vars>>

\* line 175: _need raises ValueError
MissingCredential ==
    /\ run_pc = "fetching"
    /\ sent = 0
    /\ ~env_ok
    /\ Fails("missing_credential")

\* lines 189-193: one chunk posted and answered
SendChunk ==
    /\ run_pc = "fetching"
    /\ env_ok
    /\ sent < Len(requests)
    /\ LET upto == IF sent + BATCH_SIZE < Len(requests) THEN sent + BATCH_SIZE
                   ELSE Len(requests)
       IN  /\ replies' = replies \o
                 (IF tp_silent THEN <<>>
                  ELSE [j \in 1..(upto - sent) |->
                          ReplyTo(requests[sent + j], sent + j, tp_policy, tp_header, run_now)])
           /\ sent' = upto
           /\ run_pc' = IF upto = Len(requests) THEN "fetched" ELSE "fetching"
    /\ UNCHANGED <<run_ticker, run_years, run_now, env_ok, tp_policy, tp_header,
                   tp_silent, requests, raw_df, company_name, financial_data,
                   metric_i, outcome, result>>
    /\ UNCHANGED <<rs_vars, ex_vars, ra_vars, mg_vars, tr_vars, cf_vars, sb_vars>>

\* line 192: raise_for_status raises on the chunk being posted
ChunkFails ==
    /\ run_pc = "fetching"
    /\ env_ok
    /\ sent < Len(requests)
    /\ Fails("transport_error")

\* lines 240-242
NoRows ==
    /\ run_pc = "fetched"
    /\ replies = <<>>
    /\ run_pc' = "done"
    /\ outcome' = "no_rows"
    /\ result' = EmptyFrame
    /\ UNCHANGED <<run_ticker, run_years, run_now, env_ok, tp_policy, tp_header,
                   tp_silent, requests, sent, replies, raw_df, company_name,
                   financial_data, metric_i>>
    /\ UNCHANGED <<rs_vars, ex_vars, ra_vars, mg_vars, tr_vars, cf_vars, sb_vars>>

\* lines 245-249
Parse ==
    /\ run_pc = "fetched"
    /\ replies # <<>>
    /\ raw_df' = parse_to_table(replies)
    /\ IF Len(raw_df'.recs) = 0
       THEN /\ run_pc' = "done"
            /\ outcome' = "no_parseable_rows"
            /\ result' = EmptyFrame
       ELSE /\ run_pc' = "parsed"
            /\ UNCHANGED <<outcome, result>>
    /\ UNCHANGED <<run_ticker, run_years, run_now, env_ok, tp_policy, tp_header,
                   tp_silent, requests, sent, replies, company_name, financial_data,
                   metric_i>>
    /\ UNCHANGED <<rs_vars, ex_vars, ra_vars, mg_vars, tr_vars, cf_vars, sb_vars>>

\* lines 261-351
StartAssembly ==
    /\ run_pc = "parsed"
    /\ company_name' = CompanyName(run_ticker, raw_df)
    /\ financial_data' = InitialData(run_ticker, run_years, run_now, company_name')
    /\ metric_i' = 1
    /\ run_pc' = "metrics"
    /\ UNCHANGED <<run_ticker, run_years, run_now, env_ok, tp_policy, tp_header,
                   tp_silent, requests, sent, replies, raw_df, outcome, result>>
    /\ UNCHANGED <<rs_vars, ex_vars, ra_vars, mg_vars, tr_vars, cf_vars, sb_vars>>

\* lines 355-561: one turn of the loop over the metrics dict
ProcessMetric ==
    /\ run_pc = "metrics"
    /\ metric_i <= Len(MetricOrder)
    /\ financial_data' =
          ProcessOneMetric(financial_data, MetricOrder[metric_i], raw_df, run_now)
    /\ metric_i' = metric_i + 1
    /\ UNCHANGED <<run_pc, run_ticker, run_years, run_now, env_ok, tp_policy,
                   tp_header, tp_silent, requests, sent, replies, raw_df,
                   company_name, outcome, result>>
    /\ UNCHANGED <<rs_vars, ex_vars, ra_vars, mg_vars, tr_vars, cf_vars, sb_vars>>

\* lines 564-575
ReturnDataset ==
    /\ run_pc = "metrics"
    /\ metric_i > Len(MetricOrder)
    /\ result' = ResultFrame(financial_data)
    /\ outcome' = "dataset"
    /\ run_pc' = "done"
    /\ UNCHANGED <<run_ticker, run_years, run_now, env_ok, tp_policy, tp_header,
                   tp_silent, requests, sent, replies, raw_df, company_name,
                   financial_data, metric_i>>
    /\ UNCHANGED <<rs_vars, ex_vars, ra_vars, mg_vars, tr_vars, cf_vars, sb_vars>>

Next ==
    \/ BuildRequests
    \/ MissingCredential
    \/ SendChunk
    \/ ChunkFails
    \/ NoRows
    \/ Parse
    \/ StartAssembly
    \/ ProcessMetric
    \/ ReturnDataset

Spec == Init /\ [][Next]_vars


(***************************************************************************)
(* Properties of a run                                                     *)
(***************************************************************************)
\* the Year column of a returned frame, top to bottom
YearsOf(frame) == [j \in 1..Len(frame) |-> frame[j].Year]

\* the requested window, oldest year first
Window == [j \in 1..run_years |-> run_now - run_years + j]

\* a record of raw_df resolves to the year after the anchor and holds a number
BeyondWindowRecord ==
    \E i \in 1..Len(raw_df.recs) :
        /\ ResolveYear(raw_df.recs[i], raw_df.cols, raw_df.recs[i]["Period"].s, run_now)
              = Some(run_now + 1)
        /\ \E c \in NonMeta(raw_df.cols) :
              IsIntOrFloat(raw_df.recs[i][c]) /\ ~IsNa(raw_df.recs[i][c])

RelativeOnly(mnemonic) ==
    /\ Len(replies) = Len(requests)
    /\ \A j \in 1..Len(requests) :
          requests[j].mnemonic = mnemonic =>
             /\ AnswerKind(requests[j]) \in {"relpast", "relfut"} =>
                   /\ Len(ValueRows(replies[j])) = 1
                   /\ IsIntOrFloat(ValueRows(replies[j])[1][1])
                   /\ ~IsNa(ValueRows(replies[j])[1][1])
                   /\ replies[j].periodtype = requests[j].periodType.val
             /\ AnswerKind(requests[j]) \in {"abs", "multi"} => ValueRows(replies[j]) = <<>>

HasValueInEveryYear(mnemonic) ==
    /\ Len(result) = run_years
    /\ \A j \in 1..Len(result) : result[j].metrics[FriendlyName(mnemonic)].some

\* C6: in a 3-year run, a core metric whose relative-offset requests are each
\* answered with one numeric row, and whose absolute and multi-period
\* requests are answered with no rows, has a value in each of the 3 years
\* of the returned dataset.
C6_RelativeOffsetsFillTheWindow ==
    (run_pc = "done" /\ run_years = 3) =>
        \A k \in 1..Len(KeyMetrics) :
            RelativeOnly(KeyMetrics[k]) =>
                /\ outcome = "dataset"
                /\ YearsOf(result) = Window
                /\ HasValueInEveryYear(KeyMetrics[k])

C6_Witness ==
    /\ run_pc = "done"
    /\ run_years = 3
    /\ Upper(run_ticker) # AAPL
    /\ tp_header = "Data"
    /\ \E k \in 1..Len(KeyMetrics) :
          /\ RelativeOnly(KeyMetrics[k])
          /\ \A t \in {IQ_FY \o <<"-", "2">>, IQ_FY \o <<"-", "1">>, IQ_FY \o <<"+", "0">>} :
                \E j \in 1..Len(requests) :
                    /\ requests[j].mnemonic = KeyMetrics[k]
                    /\ requests[j].periodType = Some(t)
          /\ HasValueInEveryYear(KeyMetrics[k])

\* C8 as stated: a run that failed outright, on a missing credential or a
\* transport error, never returns what a run with no rows or no parseable
\* rows returns, which is the frame with no rows and no columns.
C8_FailureDistinctFromEmpty ==
    (run_pc = "done" /\ outcome \in {"missing_credential", "transport_error"})
        => result # EmptyFrame

\* a record of raw_df for the metric resolves to the year and yields a number
HasSource(mnemonic, year) ==
    LET metric_rows == MetricRows(raw_df, mnemonic)
    IN  /\ Len(metric_rows) > 0
        /\ LET value_col == FindValueCol(mnemonic, metric_rows[1], raw_df.cols)
           IN  /\ value_col.some
               /\ \E i \in 1..Len(metric_rows) :
                     /\ ResolveYear(metric_rows[i], raw_df.cols,
                                    metric_rows[i]["Period"].s, run_now) = Some(year)
                     /\ ExtractValue(metric_rows[i], raw_df.cols, value_col.val).some

\* C9 as stated: for every ticker, a (year, metric) cell of the returned
\* dataset holds a value only if a record the transport returned in this run
\* for that metric resolved to that year and yielded a number.
C9_NoFabricatedValues ==
    (run_pc = "done" /\ outcome = "dataset") =>
        \A j \in 1..Len(result) : \A k \in 1..Len(MetricOrder) :
            result[j].metrics[FriendlyName(MetricOrder[k])].some
                => HasSource(MetricOrder[k], result[j].Year)

(***************************************************************************)
(* Data frames of the ratio engine and of the comparison merge: the column *)
(* names in order, and the rows as functions from column name to cell.     *)
(* A float64 cell is NaN, an infinity, or a number held as an exact        *)
(* fraction n/d in lowest terms with d > 0.                                *)
(***************************************************************************)
Abs(n) == IF n < 0 THEN -n ELSE n

RECURSIVE Gcd(_, _)
Gcd(a, b) == IF b = 0 THEN a ELSE Gcd(b, a % b)

Float(n, d) ==
    LET g == Gcd(Abs(n), Abs(d))
        sign == IF d < 0 THEN -1 ELSE 1
    IN  [k |-> "num", v |-> [n |-> (sign * n) \div g, d |-> (sign * d) \div g]]

Inf(neg) == [k |-> "inf", neg |-> neg]

IsZero(c) == c.k = "num" /\ c.v.n = 0

IsNegative(c) == (c.k = "num" /\ c.v.n < 0) \/ (c.k = "inf" /\ c.neg)

\* a / b of two float64 cells: numpy division, which does not raise
FloatDiv(a, b) ==
    IF IsNa(a) \/ IsNa(b) THEN NaN
    ELSE IF a.k = "inf"
    THEN IF b.k = "inf" THEN NaN ELSE Inf(a.neg # IsNegative(b))
    ELSE IF b.k = "inf" THEN Float(0, 1)
    ELSE IF IsZero(b) THEN (IF IsZero(a) THEN NaN ELSE Inf(IsNegative(a)))
    ELSE Float(a.v.n * b.v.d, a.v.d * b.v.n)

\* a * scale for a positive integer scale
FloatTimes(a, scale) ==
    IF a.k = "num" THEN Float(a.v.n * scale, a.v.d) ELSE a

\* a - b
FloatMinus(a, b) ==
    IF IsNa(a) \/ IsNa(b) THEN NaN
    ELSE IF a.k = "inf" THEN (IF b.k = "inf" /\ a.neg = b.neg THEN NaN ELSE a)
    ELSE IF b.k = "inf" THEN Inf(~b.neg)
    ELSE Float(a.v.n * b.v.d - b.v.n * a.v.d, a.v.d * b.v.d)

\* df[col] = values
SetColumn(df, col, values) ==
    LET cols == IF InSeq(col, df.cols) THEN df.cols ELSE Append(df.cols, col)
    IN  [cols |-> cols,
         rows |-> [i \in 1..Len(df.rows) |->
                     [c \in Range(cols) |-> IF c = col THEN values[i] ELSE df.rows[i][c]]]]

\* [col for col in df.columns if sub in col]
ColumnsWith(df, sub) == SelectSeq(df.cols, LAMBDA col : Contains(col, sub))

(***************************************************************************)
(* Ratio Engine: logic/financial_analysis.py                               *)
(***************************************************************************)
TOTAL_REV == <<"T", "O", "T", "A", "L", "_", "R", "E", "V">>
NI == <<"N", "I">>
NI_MARGIN == <<"N", "I", "_", "M", "A", "R", "G", "I", "N">>
EBITDA == <<"E", "B", "I", "T", "D", "A">>
EBITDA_MARGIN == <<"E", "B", "I", "T", "D", "A", "_", "M", "A", "R", "G", "I", "N">>
EBIT == <<"E", "B", "I", "T">>
EBIT_MARGIN == <<"E", "B", "I", "T", "_", "M", "A", "R", "G", "I", "N">>
TOTAL_ASSETS == <<"T", "O", "T", "A", "L", "_", "A", "S", "S", "E", "T", "S">>
CASH_EQUIV == <<"C", "A", "S", "H", "_", "E", "Q", "U", "I", "V">>
TOTAL_LIAB == <<"T", "O", "T", "A", "L", "_", "L", "I", "A", "B">>
NET_PROFIT_MARGIN == <<"N", "E", "T", "_", "P", "R", "O", "F", "I", "T", "_", "M", "A", "R", "G", "I", "N">>
ROA == <<"R", "O", "A">>
CASH_RATIO == <<"C", "A", "S", "H", "_", "R", "A", "T", "I", "O">>
DEBT_TO_ASSET_RATIO == <<"D", "E", "B", "T", "_", "T", "O", "_", "A", "S", "S", "E", "T", "_", "R", "A", "T", "I", "O">>
DEBT_TO_EQUITY_RATIO == <<"D", "E", "B", "T", "_", "T", "O", "_", "E", "Q", "U", "I", "T", "Y", "_", "R", "A", "T", "I", "O">>
EQUITY == <<"E", "Q", "U", "I", "T", "Y">>

\* line 60: the factor of the ratios given in percent
Percent == 100

Underscore == <<"_">>

\* col.split('_')[-1]
LastPart(col) == Split(col, "_")[Len(Split(col, "_"))]

\* lines 52-53: both direct, or both with the same company suffix
SameSuffix(a, b) ==
    \/ ~Contains(a, Underscore) /\ ~Contains(b, Underscore)
    \/ /\ Contains(a, Underscore)
       /\ Contains(b, Underscore)
       /\ LastPart(a) = LastPart(b)

\* lines 56-58
SuffixOf(col) == IF Contains(col, Underscore) THEN Underscore \o LastPart(col) ELSE <<>>

\* lines 48-60: the two loops of one ratio, from the p-th pair of columns on;
\* scale is 100 for the ratios the code multiplies by 100 and 1 for the others
RECURSIVE RatioLoop(_, _, _, _, _, _)
RatioLoop(df, num_cols, den_cols, p, out, scale) ==
    IF p > Len(num_cols) * Len(den_cols) THEN df
    ELSE LET a == num_cols[((p - 1) \div Len(den_cols)) + 1]
             b == den_cols[((p - 1) % Len(den_cols)) + 1]
             next == IF SameSuffix(a, b)
                     THEN SetColumn(df, out \o SuffixOf(a),
                                    [i \in 1..Len(df.rows) |->
                                        FloatTimes(FloatDiv(df.rows[i][a], df.rows[i][b]), scale)])
                     ELSE df
         IN  RatioLoop(next, num_cols, den_cols, p + 1, out, scale)

\* lines 37-100
calculate_profitability_ratios(df) ==
    LET rev_cols == ColumnsWith(df, TOTAL_REV)
        ni_cols == SelectSeq(ColumnsWith(df, NI), LAMBDA col : col # NI_MARGIN)
        ebitda_cols == SelectSeq(ColumnsWith(df, EBITDA), LAMBDA col : col # EBITDA_MARGIN)
        ebit_cols == SelectSeq(ColumnsWith(df, EBIT), LAMBDA col : col # EBIT_MARGIN)
        asset_cols == ColumnsWith(df, TOTAL_ASSETS)
        with_ebitda == RatioLoop(df, ebitda_cols, rev_cols, 1, EBITDA_MARGIN, Percent)
        with_net == RatioLoop(with_ebitda, ni_cols, rev_cols, 1, NET_PROFIT_MARGIN, Percent)
        with_roa == RatioLoop(with_net, ni_cols, asset_cols, 1, ROA, Percent)
    IN  RatioLoop(with_roa, ebit_cols, rev_cols, 1, EBIT_MARGIN, Percent)

\* lines 103-136
calculate_liquidity_ratios(df) ==
    LET cash_cols == ColumnsWith(df, CASH_EQUIV)
        asset_cols == ColumnsWith(df, TOTAL_ASSETS)
        liab_cols == ColumnsWith(df, TOTAL_LIAB)
        with_cash == RatioLoop(df, cash_cols, liab_cols, 1, CASH_RATIO, 1)
    IN  RatioLoop(with_cash, liab_cols, asset_cols, 1, DEBT_TO_ASSET_RATIO, 1)

\* lines 139-143
calculate_efficiency_ratios(df) == df

\* lines 155-170: the two loops of the debt to equity ratio
RECURSIVE LeverageLoop(_, _, _, _)
LeverageLoop(df, liab_cols, asset_cols, p) ==
    IF p > Len(liab_cols) * Len(asset_cols) THEN df
    ELSE LET liab_col == liab_cols[((p - 1) \div Len(asset_cols)) + 1]
             asset_col == asset_cols[((p - 1) % Len(asset_cols)) + 1]
             equity_col == EQUITY \o SuffixOf(liab_col)
             with_equity ==
                 SetColumn(df, equity_col,
                           [i \in 1..Len(df.rows) |->
                               FloatMinus(df.rows[i][asset_col], df.rows[i][liab_col])])
             next == IF SameSuffix(liab_col, asset_col)
                     THEN SetColumn(with_equity, DEBT_TO_EQUITY_RATIO \o SuffixOf(liab_col),
                                    [i \in 1..Len(df.rows) |->
                                        IF ~IsZero(with_equity.rows[i][equity_col])
                                        THEN FloatDiv(with_equity.rows[i][liab_col],
                                                      with_equity.rows[i][equity_col])
                                        ELSE NaN])
                     ELSE df
         IN  LeverageLoop(next, liab_cols, asset_cols, p + 1)

\* lines 146-173
calculate_leverage_ratios(df) ==
    LeverageLoop(df, ColumnsWith(df, TOTAL_LIAB), ColumnsWith(df, TOTAL_ASSETS), 1)

\* lines 176-185
calculate_valuation_ratios(df) == df

(***************************************************************************)
(* One call of calculate_financial_ratios on a table of one varied row and *)
(* one row of plain values.                                                *)
(***************************************************************************)
YearCol == <<"Y", "e", "a", "r">>

\* the columns of the seven key metrics of one company; the suffix is empty
\* for a single-company table
MetricCols(suffix) == [j \in 1..Len(KeyMetrics) |-> KeyMetrics[j] \o suffix]

\* no company, one, two, and two whose identifiers end alike (share classes
\* written BRK_A and RDS_A, shortened here)
RatioLayouts ==
    { <<<<>>>>, <<<<"_", "A">>>>, <<<<"_", "A">>, <<"_", "B">>>>,
      <<<<"_", "X", "_", "A">>, <<"_", "Y", "_", "A">>>> }

RatioColumns(suffixes) ==
    <<YearCol>> \o Concat([j \in 1..Len(suffixes) |-> MetricCols(suffixes[j])])

\* the values of one row: IQ_TOTAL_REV, IQ_NI, IQ_EBITDA, IQ_EBIT,
\* IQ_TOTAL_ASSETS, IQ_TOTAL_LIAB, IQ_CASH_EQUIV
RatioValues ==
    { <<rev, ni, ebitda, ebit, assets, liab, cash>> :
        rev \in {Float(0, 1), Float(4, 1), NaN},
        ni \in {Float(-2, 1), Float(0, 1), Float(3, 1)},
        ebitda \in {Float(0, 1), Float(3, 1)},
        ebit \in {Float(3, 1), NaN},
        assets \in {Float(0, 1), Float(4, 1)},
        liab \in {Float(0, 1), Float(4, 1), NaN},
        cash \in {Float(0, 1), Float(3, 1)} }

PlainValues ==
    <<Float(10, 1), Float(1, 1), Float(3, 1), Float(2, 1), Float(8, 1), Float(5, 1),
      Float(1, 1)>>

RatioRow(suffixes, year, values) ==
    [c \in Range(RatioColumns(suffixes)) |->
        IF c = YearCol THEN Float(year, 1)
        ELSE IF \E j \in 1..Len(KeyMetrics) : c = KeyMetrics[j] \o suffixes[1]
        THEN values[CHOOSE j \in 1..Len(KeyMetrics) : c = KeyMetrics[j] \o suffixes[1]]
        ELSE PlainValues[CHOOSE j \in 1..Len(KeyMetrics) :
                             \E q \in 2..Len(suffixes) : c = KeyMetrics[j] \o suffixes[q]]]

\* the table without one column: a metric no record of the company gave
WithoutColumn(df, col) ==
    LET cols == SelectSeq(df.cols, LAMBDA c : c # col)
    IN  [cols |-> cols,
         rows |-> [i \in 1..Len(df.rows) |-> [c \in Range(cols) |-> df.rows[i][c]]]]

RatioTable(suffixes, values, gap) ==
    LET full == [cols |-> RatioColumns(suffixes),
                 rows |-> << RatioRow(suffixes, BaseYear - 1, values),
                             RatioRow(suffixes, BaseYear, PlainValues) >>]
    IN  IF gap THEN WithoutColumn(full, IQ_EBITDA \o suffixes[Len(suffixes)]) ELSE full

\* the same table with columns a and b in each other's place
Swapped(df, a, b) ==
    [cols |-> [i \in 1..Len(df.cols) |->
                 IF df.cols[i] = a THEN b ELSE IF df.cols[i] = b THEN a ELSE df.cols[i]],
     rows |-> df.rows]

\* the names the Canonical Assembler gives the seven key metrics
\* (api_handler.py, lines 276-283), in the order of KeyMetrics
FriendlyCols ==
    << <<"R", "e", "v", "e", "n", "u", "e">>,
       <<"N", "e", "t", " ", "I", "n", "c", "o", "m", "e">>,
       <<"E", "B", "I", "T", "D", "A">>,
       <<"E", "B", "I", "T">>,
       <<"T", "o", "t", "a", "l", " ", "A", "s", "s", "e", "t", "s">>,
       <<"T", "o", "t", "a", "l", " ", "L", "i", "a", "b", "i", "l", "i", "t", "i", "e", "s">>,
       <<"C", "a", "s", "h", " ", "&", " ", "E", "q", "u", "i", "v", "a", "l", "e", "n", "t", "s">> >>

\* the table of one company as fetch_company_by_ticker names its columns
FriendlyTable(values) ==
    [cols |-> <<YearCol>> \o FriendlyCols,
     rows |-> [i \in 1..2 |->
                 [c \in {YearCol} \cup Range(FriendlyCols) |->
                     IF c = YearCol THEN Float(BaseYear - 2 + i, 1)
                     ELSE (IF i = 1 THEN values ELSE PlainValues)[
                              CHOOSE j \in 1..Len(FriendlyCols) : FriendlyCols[j] = c]]]]

\* DataFrame.copy(): a new object with the same table; same tells whether
\* the result is the object the method was called on
copy_SameObject(df) == [table |-> df, same |-> TRUE]

copy(df) == [table |-> df, same |-> FALSE]

\* the caller's table after df[col] = ... wrote through a name whose table
\* is now written: the caller sees the write when the name is its object
Written(data, same, written) == IF same THEN written ELSE data

RatioInit ==
    /\ ResolverOff
    /\ ExtractorOff
    /\ PipelineOff
    /\ MergeOff
    /\ TrendOff
    /\ FetchOff
    /\ SlideOff
    /\ ra_pc = "start"
    /\ \E values \in RatioValues :
          \/ \E suffixes \in RatioLayouts : \E gap \in {FALSE, Len(suffixes) > 1} :
                \/ ra_data = RatioTable(suffixes, values, gap)
                \/ /\ Len(suffixes) = 1
                   /\ ra_data = Swapped(RatioTable(suffixes, values, gap),
                                        IQ_EBITDA \o suffixes[1], IQ_EBIT \o suffixes[1])
          \/ ra_data = FriendlyTable(values)
    /\ ra_df = <<>>
    /\ ra_same = FALSE

\* line 20
CopyData ==
    /\ ra_pc = "start"
    /\ ra_df' = copy(ra_data).table
    /\ ra_same' = copy(ra_data).same
    /\ ra_pc' = "profitability"
    /\ UNCHANGED <<ra_data, rs_vars, ex_vars, run_vars, mg_vars, tr_vars, cf_vars, sb_vars>>

\* lines 31-32, one turn of the loop over ratio_functions; a ratio function
\* writes its columns into the object it is given and returns that object
ApplyRatios(next, df) ==
    /\ ra_df' = df
    /\ ra_data' = Written(ra_data, ra_same, df)
    /\ ra_pc' = next
    /\ UNCHANGED <<ra_same, rs_vars, ex_vars, run_vars, mg_vars, tr_vars, cf_vars, sb_vars>>

ProfitabilityRatios ==
    /\ ra_pc = "profitability"
    /\ ApplyRatios("liquidity", calculate_profitability_ratios(ra_df))

LiquidityRatios ==
    /\ ra_pc = "liquidity"
    /\ ApplyRatios("efficiency", calculate_liquidity_ratios(ra_df))

EfficiencyRatios ==
    /\ ra_pc = "efficiency"
    /\ ApplyRatios("leverage", calculate_efficiency_ratios(ra_df))

LeverageRatios ==
    /\ ra_pc = "leverage"
    /\ ApplyRatios("valuation", calculate_leverage_ratios(ra_df))

\* the last turn, and line 34
ValuationRatios ==
    /\ ra_pc = "valuation"
    /\ ApplyRatios("done", calculate_valuation_ratios(ra_df))

RatioNext ==
    \/ CopyData
    \/ ProfitabilityRatios
    \/ LiquidityRatios
    \/ EfficiencyRatios
    \/ LeverageRatios
    \/ ValuationRatios

SpecRatio == RatioInit /\ [][RatioNext]_vars

\* the ratios with the column each divides by
RatioDenominators ==
    { [out |-> EBITDA_MARGIN, den |-> IQ_TOTAL_REV],
      [out |-> NET_PROFIT_MARGIN, den |-> IQ_TOTAL_REV],
      [out |-> ROA, den |-> IQ_TOTAL_ASSETS],
      [out |-> EBIT_MARGIN, den |-> IQ_TOTAL_REV],
      [out |-> CASH_RATIO, den |-> IQ_TOTAL_LIAB],
      [out |-> DEBT_TO_ASSET_RATIO, den |-> IQ_TOTAL_ASSETS],
      [out |-> DEBT_TO_EQUITY_RATIO, den |-> EQUITY] }

\* C4 as stated: in the table calculate_financial_ratios returns, every
\* ratio of a row whose denominator is exactly 0 is the missing-value
\* marker NaN, whatever the numerator, and never an infinity.
C4_ZeroDenominatorGivesMissing ==
    ra_pc = "done" =>
        \A r \in RatioDenominators : \A suffix \in {<<"_", "A">>, <<"_", "B">>} :
            (InSeq(r.out \o suffix, ra_df.cols) /\ InSeq(r.den \o suffix, ra_df.cols)) =>
                \A i \in 1..Len(ra_df.rows) :
                    IsZero(ra_df.rows[i][r.den \o suffix])
                        => IsNa(ra_df.rows[i][r.out \o suffix])

\* the company suffixes of a table: what follows a key metric's mnemonic in
\* the name of a column
EntitySuffixes(df) ==
    UNION { { SubSeq(df.cols[i], Len(KeyMetrics[j]) + 1, Len(df.cols[i])) :
                j \in { k \in 1..Len(KeyMetrics) : StartsWith(df.cols[i], KeyMetrics[k]) } } :
            i \in 1..Len(df.cols) }

\* the values of col are those of a quotient of two columns of the company
\* with this suffix, times 1 or 100
QuotientWithin(df, col, suffix) ==
    \E j, k \in 1..Len(KeyMetrics) : \E scale \in {1, Percent} :
        /\ InSeq(KeyMetrics[j] \o suffix, df.cols)
        /\ InSeq(KeyMetrics[k] \o suffix, df.cols)
        /\ \A i \in 1..Len(df.rows) :
              df.rows[i][col] = FloatTimes(FloatDiv(df.rows[i][KeyMetrics[j] \o suffix],
                                                    df.rows[i][KeyMetrics[k] \o suffix]),
                                           scale)

\* the columns the ratio functions added, but for the equity columns
WrittenRatios == { c \in Range(ra_df.cols) : ~InSeq(c, ra_data.cols) /\ ~StartsWith(c, EQUITY) }

PlainRatios == { c \in WrittenRatios : ~StartsWith(c, DEBT_TO_EQUITY_RATIO) }

\* C12 as stated: every ratio column the engine writes holds, in every
\* row, the quotient of two columns of one and the same company; here for
\* the six ratios that are plain quotients.
C12_RatiosPairOneEntity ==
    ra_pc = "done" =>
        \A c \in PlainRatios : \E suffix \in EntitySuffixes(ra_data) :
            QuotientWithin(ra_df, c, suffix)

\* the ratios of the engine with the positions, in KeyMetrics, of the
\* numerator and the denominator of each
RatioPairs ==
    { [out |-> EBITDA_MARGIN, num |-> 3, den |-> 1],
      [out |-> NET_PROFIT_MARGIN, num |-> 2, den |-> 1],
      [out |-> ROA, num |-> 2, den |-> 5],
      [out |-> EBIT_MARGIN, num |-> 4, den |-> 1],
      [out |-> CASH_RATIO, num |-> 7, den |-> 6],
      [out |-> DEBT_TO_ASSET_RATIO, num |-> 6, den |-> 5],
      [out |-> DEBT_TO_EQUITY_RATIO, num |-> 6, den |-> 5] }

\* the table names its metric columns by these names, with no suffix
NamedBy(df, names) == \A i \in 1..Len(df.cols) : df.cols[i] = YearCol \/ InSeq(df.cols[i], names)

\* C21 as stated: on a table of one company whose metric columns carry no
\* suffix, named by mnemonic or by the assembler's friendly names, the
\* engine adds the column of every ratio whose numerator and denominator
\* the table has.
C21_RatiosOfUnsuffixedTables ==
    ra_pc = "done" =>
        \A names \in {MetricCols(<<>>), FriendlyCols} : \A r \in RatioPairs :
            (/\ NamedBy(ra_data, names)
             /\ InSeq(names[r.num], ra_data.cols)
             /\ InSeq(names[r.den], ra_data.cols))
                => InSeq(r.out, ra_df.cols)

\* C22 as stated: an EBIT_MARGIN column the engine writes holds, in every
\* row, EBIT / Revenue * 100 of the company of its suffix, in whatever
\* order the columns of the input come and with or without an EBITDA
\* column of that company.
C22_EbitMarginUsesEbit ==
    ra_pc = "done" =>
        \A suffix \in {<<"_", "A">>, <<"_", "B">>} :
            (/\ \A i \in 1..Len(ra_data.cols) :
                   \/ ra_data.cols[i] = YearCol
                   \/ \E j \in 1..Len(KeyMetrics) : \E own \in {<<"_", "A">>, <<"_", "B">>} :
                         ra_data.cols[i] = KeyMetrics[j] \o own
             /\ InSeq(EBIT_MARGIN \o suffix, ra_df.cols))
                => /\ InSeq(IQ_EBIT \o suffix, ra_data.cols)
                   /\ InSeq(IQ_TOTAL_REV \o suffix, ra_data.cols)
                   /\ \A i \in 1..Len(ra_df.rows) :
                         ra_df.rows[i][EBIT_MARGIN \o suffix]
                            = FloatTimes(FloatDiv(ra_data.rows[i][IQ_EBIT \o suffix],
                                                  ra_data.rows[i][IQ_TOTAL_REV \o suffix]),
                                         Percent)

(***************************************************************************)
(* Comparison merge: merge_company_data of pages/1_Slide_Builder.py        *)
(***************************************************************************)
DateCol == <<"D", "a", "t", "e">>
TickerCol == <<"T", "i", "c", "k", "e", "r">>
RevenueCol == <<"R", "e", "v", "e", "n", "u", "e">>

\* pd.to_datetime(date).dt.year of a date written year first
YearOfDate(cell) == ParseInt(Split(cell.s, "-")[1])

\* lines 140-143: a Year column computed from the Date column
WithYear(df) ==
    IF ~InSeq(YearCol, df.cols) /\ InSeq(DateCol, df.cols)
    THEN SetColumn(df, YearCol,
                   [i \in 1..Len(df.rows) |-> Float(YearOfDate(df.rows[i][DateCol]), 1)])
    ELSE df

\* lines 149-159: the name of a column after the rename
SuffixedName(col, ticker) ==
    IF col = YearCol \/ col = DateCol THEN col ELSE col \o Underscore \o ticker

\* lines 162-163: df.rename(columns=...)
Renamed(df, ticker) ==
    LET cols == [j \in 1..Len(df.cols) |-> SuffixedName(df.cols[j], ticker)]
    IN  [cols |-> cols,
         rows |-> [i \in 1..Len(df.rows) |->
                     [c \in Range(cols) |->
                         df.rows[i][df.cols[CHOOSE j \in 1..Len(cols) : cols[j] = c]]]]]

\* pd.merge: a column of both frames other than the key gets _x on the left
\* and _y on the right
LeftName(col, left, right) ==
    IF col # YearCol /\ InSeq(col, right.cols) THEN col \o <<"_", "x">> ELSE col

RightName(col, left, right) ==
    IF col # YearCol /\ InSeq(col, left.cols) THEN col \o <<"_", "y">> ELSE col

YearsIn(df) == { df.rows[i][YearCol].v.n : i \in 1..Len(df.rows) }

JoinKeys_Inner(left, right) == SortedSeq(YearsIn(left) \cap YearsIn(right))

\* how='outer': the keys of either frame, sorted
JoinKeys(left, right) == SortedSeq(YearsIn(left) \cup YearsIn(right))

\* the row numbers of df whose Year is the key, in order
RowsOf(df, key) ==
    SelectSeq([i \in 1..Len(df.rows) |-> i], LAMBDA i : df.rows[i][YearCol].v.n = key)

\* one row of the merged frame: l and r are row numbers, 0 for no row
MergedRow(left, right, key, l, r) ==
    LET right_cols == SelectSeq(right.cols, LAMBDA c : c # YearCol)
        cols == { LeftName(left.cols[j], left, right) : j \in 1..Len(left.cols) }
                \cup { RightName(right_cols[j], left, right) : j \in 1..Len(right_cols) }
    IN  [c \in cols |->
            IF c = YearCol THEN Float(key, 1)
            ELSE IF \E j \in 1..Len(left.cols) : LeftName(left.cols[j], left, right) = c
            THEN IF l = 0 THEN NaN
                 ELSE left.rows[l][left.cols[CHOOSE j \in 1..Len(left.cols) :
                                        LeftName(left.cols[j], left, right) = c]]
            ELSE IF r = 0 THEN NaN
                 ELSE right.rows[r][right_cols[CHOOSE j \in 1..Len(right_cols) :
                                        RightName(right_cols[j], left, right) = c]]]

\* the merged rows of one key: every pair of a left and a right row with the
\* key, and a row of one frame alone when the other has none
KeyRows(left, right, key) ==
    LET ls == RowsOf(left, key)
        rs == RowsOf(right, key)
    IN  IF Len(rs) = 0 THEN [j \in 1..Len(ls) |-> MergedRow(left, right, key, ls[j], 0)]
        ELSE IF Len(ls) = 0 THEN [j \in 1..Len(rs) |-> MergedRow(left, right, key, 0, rs[j])]
        ELSE [j \in 1..(Len(ls) * Len(rs)) |->
                 MergedRow(left, right, key, ls[((j - 1) \div Len(rs)) + 1],
                           rs[((j - 1) % Len(rs)) + 1])]

\* line 166: pd.merge(df1, df2, on='Year', how='outer')
OuterMerge(left, right) ==
    LET right_cols == SelectSeq(right.cols, LAMBDA c : c # YearCol)
        keys == JoinKeys(left, right)
    IN  [cols |-> [j \in 1..Len(left.cols) |-> LeftName(left.cols[j], left, right)]
                  \o [j \in 1..Len(right_cols) |-> RightName(right_cols[j], left, right)],
         rows |-> Concat([j \in 1..Len(keys) |-> KeyRows(left, right, keys[j])])]

(***************************************************************************)
(* One call of merge_company_data.  Each argument is None, the frame with  *)
(* no rows and no columns, or a dataset of one company, with or without    *)
(* its Year column.                                                        *)
(***************************************************************************)
FirstMergeYear == BaseYear - 4

\* the years of a dataset, top to bottom
MergeYearLists ==
    { SortedSeq(S) : S \in (SUBSET (FirstMergeYear..(FirstMergeYear + 2))) \ {{}} }
    \cup { <<FirstMergeYear + 1, FirstMergeYear + 1>> }

Dataset(years, with_year, ticker) ==
    LET cols == (IF with_year THEN <<YearCol>> ELSE <<>>) \o <<DateCol, TickerCol, RevenueCol>>
    IN  [cols |-> cols,
         rows |-> [i \in 1..Len(years) |->
                     [c \in Range(cols) |->
                         IF c = YearCol THEN Float(years[i], 1)
                         ELSE IF c = DateCol
                         THEN Str(FormatInt(years[i]) \o <<"-", "1", "2", "-", "3", "1">>)
                         ELSE IF c = TickerCol THEN Str(ticker)
                         ELSE Float(years[i] % 100, 1)]]]

NoColumns == [cols |-> <<>>, rows |-> <<>>]

MergeInputs(ticker) ==
    {None, Some(NoColumns)}
    \cup { Some(Dataset(years, with_year, ticker)) :
             years \in MergeYearLists, with_year \in BOOLEAN }

MergeTickers == { <<"A">>, <<"B">> }

MergeInit ==
    /\ ResolverOff
    /\ ExtractorOff
    /\ PipelineOff
    /\ RatioOff
    /\ TrendOff
    /\ FetchOff
    /\ SlideOff
    /\ mg_pc = "start"
    /\ mg_ticker1 = <<"A">>
    /\ mg_ticker2 \in MergeTickers
    /\ mg_data1 \in MergeInputs(mg_ticker1)
    /\ mg_data2 \in MergeInputs(mg_ticker2)
    /\ mg_df1 = <<>>
    /\ mg_df2 = <<>>
    /\ mg_out = None

\* lines 131-132
MergeNothing ==
    /\ mg_pc = "start"
    /\ ~mg_data1.some \/ ~mg_data2.some
    /\ mg_out' = None
    /\ mg_pc' = "done"
    /\ UNCHANGED <<mg_data1, mg_data2, mg_ticker1, mg_ticker2, mg_df1, mg_df2>>
    /\ UNCHANGED <<rs_vars, ex_vars, run_vars, ra_vars, tr_vars, cf_vars, sb_vars>>

\* lines 136-163
RenameColumns ==
    /\ mg_pc = "start"
    /\ mg_data1.some /\ mg_data2.some
    /\ mg_df1' = Renamed(WithYear(mg_data1.val), mg_ticker1)
    /\ mg_df2' = Renamed(WithYear(mg_data2.val), mg_ticker2)
    /\ mg_pc' = "renamed"
    /\ UNCHANGED <<mg_data1, mg_data2, mg_ticker1, mg_ticker2, mg_out>>
    /\ UNCHANGED <<rs_vars, ex_vars, run_vars, ra_vars, tr_vars, cf_vars, sb_vars>>

\* lines 166-168
MergeFrames ==
    /\ mg_pc = "renamed"
    /\ InSeq(YearCol, mg_df1.cols) /\ InSeq(YearCol, mg_df2.cols)
    /\ mg_out' = Some(OuterMerge(mg_df1, mg_df2))
    /\ mg_pc' = "done"
    /\ UNCHANGED <<mg_data1, mg_data2, mg_ticker1, mg_ticker2, mg_df1, mg_df2>>
    /\ UNCHANGED <<rs_vars, ex_vars, run_vars, ra_vars, tr_vars, cf_vars, sb_vars>>

\* lines 169-171: pd.merge raises KeyError when a frame has no Year column
MergeRaises ==
    /\ mg_pc = "renamed"
    /\ ~InSeq(YearCol, mg_df1.cols) \/ ~InSeq(YearCol, mg_df2.cols)
    /\ mg_out' = None
    /\ mg_pc' = "done"
    /\ UNCHANGED <<mg_data1, mg_data2, mg_ticker1, mg_ticker2, mg_df1, mg_df2>>
    /\ UNCHANGED <<rs_vars, ex_vars, run_vars, ra_vars, tr_vars, cf_vars, sb_vars>>

MergeNext ==
    \/ MergeNothing
    \/ RenameColumns
    \/ MergeFrames
    \/ MergeRaises

SpecMerge == MergeInit /\ [][MergeNext]_vars

\* a dataset of one company with no year twice
UniqueYears(data) ==
    /\ data.some
    /\ Len(data.val.rows) > 0
    /\ InSeq(DateCol, data.val.cols)
    /\ \A i, j \in 1..Len(data.val.rows) :
          data.val.rows[i][DateCol] = data.val.rows[j][DateCol] => i = j

\* the cells of a merged row in the columns that come from df
MissingFrom(row, df, one_side) ==
    \A j \in 1..Len(df.cols) :
        df.cols[j] # YearCol =>
            IsNa(row[IF one_side = "left" THEN LeftName(df.cols[j], mg_df1, mg_df2)
                     ELSE RightName(df.cols[j], mg_df1, mg_df2)])

\* C7: merging two datasets of one company each, each with unique years,
\* gives a frame whose years are the union of the two sets of years, each
\* year once; the row of a year that only the first dataset has is missing
\* in every column of the second, and the other way round.
C7_MergeIsOuterJoinOnYear ==
    (mg_pc = "done" /\ UniqueYears(mg_data1) /\ UniqueYears(mg_data2)) =>
        /\ mg_out.some
        /\ YearsIn(mg_out.val) = YearsIn(mg_df1) \cup YearsIn(mg_df2)
        /\ Len(mg_out.val.rows) = Cardinality(YearsIn(mg_df1) \cup YearsIn(mg_df2))
        /\ \A i \in 1..Len(mg_out.val.rows) :
              LET row == mg_out.val.rows[i]
              IN  /\ row[YearCol].v.n \notin YearsIn(mg_df2) => MissingFrom(row, mg_df2, "right")
                  /\ row[YearCol].v.n \notin YearsIn(mg_df1) => MissingFrom(row, mg_df1, "left")

C7_Witness ==
    /\ mg_pc = "done"
    /\ mg_ticker2 = <<"B">>
    /\ mg_data1 = Some(Dataset(<<FirstMergeYear, FirstMergeYear + 1>>, TRUE, <<"A">>))
    /\ mg_data2 = Some(Dataset(<<FirstMergeYear + 1, FirstMergeYear + 2>>, TRUE, <<"B">>))
    /\ mg_out.some
    /\ [i \in 1..Len(mg_out.val.rows) |-> mg_out.val.rows[i][YearCol].v.n]
          = <<FirstMergeYear, FirstMergeYear + 1, FirstMergeYear + 2>>
    /\ IsNa(mg_out.val.rows[1][RevenueCol \o <<"_", "B">>])
    /\ ~IsNa(mg_out.val.rows[1][RevenueCol \o <<"_", "A">>])
    /\ ~IsNa(mg_out.val.rows[2][RevenueCol \o <<"_", "A">>])
    /\ ~IsNa(mg_out.val.rows[2][RevenueCol \o <<"_", "B">>])
    /\ IsNa(mg_out.val.rows[3][RevenueCol \o <<"_", "A">>])
    /\ ~IsNa(mg_out.val.rows[3][RevenueCol \o <<"_", "B">>])

(***************************************************************************)
(* Properties of the assembly of a run                                     *)
(***************************************************************************)
\* the value column of a metric, None when it has no record or no column
ValueColOf(mnemonic) ==
    IF Len(MetricRows(raw_df, mnemonic)) = 0 THEN None
    ELSE FindValueCol(mnemonic, MetricRows(raw_df, mnemonic)[1], raw_df.cols)

\* the positions, among the records of the metric, of those that resolve to
\* the year and yield a number
Sources(mnemonic, year) ==
    LET metric_rows == MetricRows(raw_df, mnemonic)
    IN  IF ~ValueColOf(mnemonic).some THEN {}
        ELSE { i \in 1..Len(metric_rows) :
                 /\ ResolveYear(metric_rows[i], raw_df.cols,
                                metric_rows[i]["Period"].s, run_now) = Some(year)
                 /\ ExtractValue(metric_rows[i], raw_df.cols,
                                 ValueColOf(mnemonic).val).some }

\* the unit-normalized value of the i-th record of the metric
NormalizedValue(mnemonic, i) ==
    NormalizeUnits(mnemonic,
                   ExtractValue(MetricRows(raw_df, mnemonic)[i], raw_df.cols,
                                ValueColOf(mnemonic).val).val.v)

Last(S) == CHOOSE i \in S : \A j \in S : j <= i

\* C13: in the returned dataset a (year, metric) cell for which records of
\* the metric resolved to the year and yielded a number holds the
\* unit-normalized value of the last of them in record order, whatever was
\* written to the cell before, pre-populated values included.
C13_LastWriteWins ==
    (run_pc = "done" /\ outcome = "dataset") =>
        \A j \in 1..Len(result) : \A k \in 1..Len(MetricOrder) :
            LET S == Sources(MetricOrder[k], result[j].Year)
            IN  S # {} =>
                   result[j].metrics[FriendlyName(MetricOrder[k])]
                      = Some(NormalizedValue(MetricOrder[k], Last(S)))

C13_Witness ==
    /\ run_pc = "done"
    /\ outcome = "dataset"
    /\ Upper(run_ticker) = AAPL
    /\ \E j \in 1..Len(result) : \E k \in 1..Len(KeyMetrics) :
          LET S == Sources(KeyMetrics[k], result[j].Year)
          IN  /\ Cardinality(S) >= 2
              /\ \E i \in S : NormalizedValue(KeyMetrics[k], i)
                                 # NormalizedValue(KeyMetrics[k], Last(S))
              /\ PrePopulated(run_ticker, result[j].Year)[FriendlyName(KeyMetrics[k])].some
              /\ result[j].metrics[FriendlyName(KeyMetrics[k])]
                    = Some(NormalizedValue(KeyMetrics[k], Last(S)))

\* what the extraction gives for a record taken by itself: the value column
\* decided on this record, then lines 468-532
OwnValue(mnemonic, row) ==
    LET value_col == FindValueCol(mnemonic, row, raw_df.cols)
    IN  IF value_col.some THEN ExtractValue(row, raw_df.cols, value_col.val) ELSE None

\* the first record of the metric has a gap: no column of it yields a number
FirstRecordGap(mnemonic) ==
    /\ Len(MetricRows(raw_df, mnemonic)) > 0
    /\ ~OwnValue(mnemonic, MetricRows(raw_df, mnemonic)[1]).some

\* C14 as stated: a record of a core metric that resolves to a year of the
\* window and in which a column yields a number contributes to the
\* dataset, so its cell holds a value, whatever gaps the other records of
\* the metric have, the first one included.
C14_GapsAreLocal ==
    (run_pc = "done" /\ outcome = "dataset") =>
        \A k \in 1..Len(KeyMetrics) :
            LET metric_rows == MetricRows(raw_df, KeyMetrics[k])
            IN  \A i \in 1..Len(metric_rows) : \A j \in 1..Len(result) :
                    (/\ ResolveYear(metric_rows[i], raw_df.cols,
                                    metric_rows[i]["Period"].s, run_now)
                           = Some(result[j].Year)
                     /\ OwnValue(KeyMetrics[k], metric_rows[i]).some)
                        => result[j].metrics[FriendlyName(KeyMetrics[k])].some

\* the value rows of a reply list, counted reply by reply
RECURSIVE ValueRowCount(_)
ValueRowCount(rows) ==
    IF Len(rows) = 0 THEN 0
    ELSE Len(ValueRows(Head(rows))) + ValueRowCount(Tail(rows))

\* C15: the flattener gives one flat record per value row: the table it
\* returns has as many records as the replies have value rows in total, a
\* reply with no value row or no 'Rows' field adding none, and the k-th
\* record carries the identifier and mnemonic of the reply its row is in.
C15_OneRecordPerValueRow ==
    raw_df # <<>> =>
        /\ Len(raw_df.recs) = ValueRowCount(replies)
        /\ \A j \in 1..Len(replies) :
              LET before == ValueRowCount(SubSeq(replies, 1, j - 1))
              IN  \A k \in 1..Len(ValueRows(replies[j])) :
                     /\ raw_df.recs[before + k]["Identifier"] = Str(replies[j].Identifier)
                     /\ raw_df.recs[before + k]["Mnemonic"] = Str(replies[j].Mnemonic)

C15_Witness ==
    /\ raw_df # <<>>
    /\ Len(raw_df.recs) > 0
    /\ \E j \in 1..Len(replies) : "Rows" \notin DOMAIN replies[j]
    /\ \E j \in 1..Len(replies) : "Rows" \in DOMAIN replies[j] /\ replies[j].Rows = <<>>
    /\ \E j \in 1..Len(replies) : Len(ValueRows(replies[j])) = 2

(***************************************************************************)
(* Trend Engine: calculate_trend_analysis of logic/financial_analysis.py,  *)
(* for one metric.  results maps the metric to its statistics.  A power    *)
(* whose value is no fraction is held as the cell [k |-> "root"] with the  *)
(* ratio and the number of years it is the growth rate of.                 *)
(***************************************************************************)
\* the metric the trend is asked for
TrendMetric == RevenueCol

\* m to the power n
RECURSIVE Power(_, _)
Power(m, n) == IF n = 0 THEN 1 ELSE m * Power(m, n - 1)

HasIntRoot(m, n) == \E r \in 0..m : Power(r, n) = m

IntRoot(m, n) == CHOOSE r \in 0..m : Power(r, n) = m

\* df.sort_values('Year') of a table whose years are distinct
SortByYear(df) ==
    LET years == SortedSeq({ df.rows[i][YearCol].v.n : i \in 1..Len(df.rows) })
    IN  [cols |-> df.cols,
         rows |-> [j \in 1..Len(df.rows) |->
                     df.rows[CHOOSE i \in 1..Len(df.rows) : df.rows[i][YearCol].v.n = years[j]]]]

\* df[metric].first_valid_index() and last_valid_index(), as positions
ValidRows(df, metric) == { i \in 1..Len(df.rows) : ~IsNa(df.rows[i][metric]) }

first_valid_index(df, metric) ==
    IF ValidRows(df, metric) = {} THEN None
    ELSE Some(CHOOSE i \in ValidRows(df, metric) : \A j \in ValidRows(df, metric) : i <= j)

last_valid_index(df, metric) ==
    IF ValidRows(df, metric) = {} THEN None
    ELSE Some(CHOOSE i \in ValidRows(df, metric) : \A j \in ValidRows(df, metric) : j <= i)

\* lines 227-228 for n_years > 0: (ratio ** (1 / n_years) - 1) * 100 in
\* float64, where a negative base with a fractional exponent gives nan
GrowthPct(ratio, n_years) ==
    IF IsNa(ratio) THEN NaN
    ELSE IF ratio.k = "inf"
    THEN (IF n_years = 1 THEN ratio ELSE Inf(FALSE))
    ELSE IF n_years = 1
    THEN FloatTimes(FloatMinus(ratio, Float(1, 1)), Percent)
    ELSE IF ratio.v.n < 0 THEN NaN
    ELSE IF HasIntRoot(ratio.v.n, n_years) /\ HasIntRoot(ratio.v.d, n_years)
    THEN FloatTimes(FloatMinus(Float(IntRoot(ratio.v.n, n_years), IntRoot(ratio.v.d, n_years)),
                               Float(1, 1)), Percent)
    ELSE [k |-> "root", v |-> [ratio |-> ratio.v, years |-> n_years]]

\* the rate taken over the number of rows instead of the elapsed years
cagr_pct_PerRow(df, metric) ==
    IF Len(df.rows) >= 2
    THEN LET first_value == first_valid_index(df, metric)
             last_value == last_valid_index(df, metric)
         IN  IF first_value.some /\ last_value.some
             THEN LET start_val == df.rows[first_value.val][metric]
                      end_val == df.rows[last_value.val][metric]
                      n_years == Len(df.rows) - 1
                  IN  IF n_years > 0 /\ ~IsNegative(start_val) /\ ~IsZero(start_val)
                      THEN GrowthPct(FloatDiv(end_val, start_val), n_years)
                      ELSE NaN
             ELSE NaN
    ELSE NaN

\* lines 216-235
cagr_pct(df, metric) ==
    IF Len(df.rows) >= 2
    THEN LET first_value == first_valid_index(df, metric)
             last_value == last_valid_index(df, metric)
         IN  IF first_value.some /\ last_value.some
             THEN LET start_val == df.rows[first_value.val][metric]
                      end_val == df.rows[last_value.val][metric]
                      n_years == df.rows[last_value.val][YearCol].v.n
                                   - df.rows[first_value.val][YearCol].v.n
                  IN  IF n_years > 0 /\ ~IsNegative(start_val) /\ ~IsZero(start_val)
                      THEN GrowthPct(FloatDiv(end_val, start_val), n_years)
                      ELSE NaN
             ELSE NaN
    ELSE NaN

\* a + b
FloatPlus(a, b) ==
    IF IsNa(a) \/ IsNa(b) THEN NaN
    ELSE IF a.k = "inf" THEN (IF b.k = "inf" /\ a.neg # b.neg THEN NaN ELSE a)
    ELSE IF b.k = "inf" THEN b
    ELSE Float(a.v.n * b.v.d + b.v.n * a.v.d, a.v.d * b.v.d)

\* a < b for two cells that are not NaN
FloatLess(a, b) ==
    IF a.k = "inf" THEN a.neg /\ ~(b.k = "inf" /\ b.neg)
    ELSE IF b.k = "inf" THEN ~b.neg
    ELSE a.v.n * b.v.d < b.v.n * a.v.d

RECURSIVE SumOf(_)
SumOf(cells) == IF Len(cells) = 0 THEN Float(0, 1) ELSE FloatPlus(Head(cells), SumOf(Tail(cells)))

\* Series.mean(), min() and max(): over the values that are not NaN, NaN
\* when there is none
Valid(cells) == SelectSeq(cells, LAMBDA c : ~IsNa(c))

MeanOf(cells) ==
    IF Len(Valid(cells)) = 0 THEN NaN
    ELSE FloatDiv(SumOf(Valid(cells)), Float(Len(Valid(cells)), 1))

MinOf(cells) ==
    IF Len(Valid(cells)) = 0 THEN NaN
    ELSE CHOOSE c \in Range(Valid(cells)) : \A d \in Range(Valid(cells)) : ~FloatLess(d, c)

MaxOf(cells) ==
    IF Len(Valid(cells)) = 0 THEN NaN
    ELSE CHOOSE c \in Range(Valid(cells)) : \A d \in Range(Valid(cells)) : ~FloatLess(c, d)

\* df[col], and df[col].iloc[-n:]
Column(df, col) == [i \in 1..Len(df.rows) |-> df.rows[i][col]]

LastN(cells, n) == SubSeq(cells, IF Len(cells) > n THEN Len(cells) - n + 1 ELSE 1, Len(cells))

\* Series.ffill(): a gap takes the last value before it
RECURSIVE FillForward(_)
FillForward(cells) ==
    IF Len(cells) <= 1 THEN cells
    ELSE LET front == FillForward(SubSeq(cells, 1, Len(cells) - 1))
             last == cells[Len(cells)]
         IN  Append(front, IF IsNa(last) THEN front[Len(front)] ELSE last)

\* line 214: Series.pct_change() * 100; pad tells whether the installed
\* pandas fills the gaps forward before it divides
pct_change(cells, pad) ==
    LET data == IF pad THEN FillForward(cells) ELSE cells
    IN  [i \in 1..Len(cells) |->
            IF i = 1 THEN NaN
            ELSE FloatMinus(FloatDiv(data[i], data[i - 1]), Float(1, 1))]

YoyCol(metric) == metric \o <<"_", "Y", "O", "Y">>

MaCol(metric, periods) == metric \o <<"_", "M", "A">> \o FormatNat(periods)

WithYoy(df, metric, pad) ==
    SetColumn(df, YoyCol(metric),
              [i \in 1..Len(df.rows) |->
                  FloatTimes(pct_change(Column(df, metric), pad)[i], Percent)])

\* lines 238-239: rolling(window=periods).mean(), a mean of the last
\* periods values where all of them are there
WithMovingAverage(df, metric, periods) ==
    IF Len(df.rows) >= periods
    THEN SetColumn(df, MaCol(metric, periods),
                   [i \in 1..Len(df.rows) |->
                       IF i >= periods
                          /\ \A j \in (i - periods + 1)..i : ~IsNa(df.rows[j][metric])
                       THEN MeanOf(SubSeq(Column(df, metric), i - periods + 1, i))
                       ELSE NaN])
    ELSE df

\* line 248
recent_trend(df, metric, periods) ==
    IF Len(df.rows) >= periods
    THEN MeanOf(LastN(Column(df, YoyCol(metric)), periods))
    ELSE NaN

\* lines 242-249: the statistics of one metric, df holding its growth column
TrendResult(df, metric, periods) ==
    [latest |-> IF Len(df.rows) > 0 THEN df.rows[Len(df.rows)][metric] ELSE NaN,
     avg |-> MeanOf(Column(df, metric)),
     min |-> MinOf(Column(df, metric)),
     max |-> MaxOf(Column(df, metric)),
     cagr |-> cagr_pct(df, metric),
     recent_trend |-> recent_trend(df, metric, periods)]

\* how many rows a table of the trend engine has at most
MaxTrendRows == 3
\* the largest window of the trend engine
MaxPeriods == 3
\* how many consecutive years, ending at BaseYear, the rows are taken from
NumTrendYears == 4

TrendYears == (BaseYear - NumTrendYears + 1)..BaseYear

TrendValues == {NaN, Float(0, 1), Float(100, 1), Float(200, 1), Float(800, 1), Float(-100, 1)}

TrendLayouts == {<<YearCol, TrendMetric>>, <<YearCol>>, <<TrendMetric>>}

TrendTable(cols, years, values) ==
    [cols |-> cols,
     rows |-> [i \in 1..Len(years) |->
                 [c \in Range(cols) |-> IF c = YearCol THEN Float(years[i], 1) ELSE values[i]]]]

\* df.sort_values('Year'), inplace left at False: a new object
sort_values(df) == [table |-> SortByYear(df), same |-> FALSE]

\* n distinct years in any order
DistinctYears(n) ==
    { ys \in [1..n -> TrendYears] : \A i, j \in 1..n : i # j => ys[i] # ys[j] }

TrendInit ==
    /\ ResolverOff
    /\ ExtractorOff
    /\ PipelineOff
    /\ RatioOff
    /\ MergeOff
    /\ FetchOff
    /\ SlideOff
    /\ tr_pc = "start"
    /\ \E n \in 0..MaxTrendRows : \E years \in DistinctYears(n) :
          \E values \in [1..n -> TrendValues] : \E cols \in TrendLayouts :
             tr_data = TrendTable(cols, years, values)
    /\ tr_periods \in 1..MaxPeriods
    /\ tr_pad \in BOOLEAN
    /\ tr_df = tr_data
    /\ tr_results = <<>>
    /\ tr_same = TRUE

\* lines 202-203
TrendNothing ==
    /\ tr_pc = "start"
    /\ ~InSeq(YearCol, tr_df.cols) \/ Len(tr_df.rows) = 0
    /\ tr_pc' = "done"
    /\ UNCHANGED <<tr_data, tr_periods, tr_pad, tr_df, tr_results, tr_same>>
    /\ UNCHANGED <<rs_vars, ex_vars, run_vars, ra_vars, mg_vars, cf_vars, sb_vars>>

\* line 206
SortValues ==
    /\ tr_pc = "start"
    /\ InSeq(YearCol, tr_df.cols)
    /\ Len(tr_df.rows) > 0
    /\ tr_df' = sort_values(tr_df).table
    /\ tr_same' = (tr_same /\ sort_values(tr_df).same)
    /\ tr_pc' = "sorted"
    /\ UNCHANGED <<tr_data, tr_periods, tr_pad, tr_results>>
    /\ UNCHANGED <<rs_vars, ex_vars, run_vars, ra_vars, mg_vars, cf_vars, sb_vars>>

\* lines 210-211
SkipMetric ==
    /\ tr_pc = "sorted"
    /\ ~InSeq(TrendMetric, tr_df.cols)
    /\ tr_pc' = "done"
    /\ UNCHANGED <<tr_data, tr_periods, tr_pad, tr_df, tr_results, tr_same>>
    /\ UNCHANGED <<rs_vars, ex_vars, run_vars, ra_vars, mg_vars, cf_vars, sb_vars>>

\* lines 213-249
AnalyzeMetric ==
    /\ tr_pc = "sorted"
    /\ InSeq(TrendMetric, tr_df.cols)
    /\ tr_df' = WithMovingAverage(WithYoy(tr_df, TrendMetric, tr_pad), TrendMetric, tr_periods)
    /\ tr_results' = [m \in {TrendMetric} |-> TrendResult(tr_df', m, tr_periods)]
    /\ tr_data' = Written(tr_data, tr_same, tr_df')
    /\ tr_pc' = "done"
    /\ UNCHANGED <<tr_periods, tr_pad, tr_same>>
    /\ UNCHANGED <<rs_vars, ex_vars, run_vars, ra_vars, mg_vars, cf_vars, sb_vars>>

\* the argument periods of add_moving_averages: a list, [3, 5] by default
PeriodList(p) == <<p, p + 2>>

\* lines 273-278, the loops over columns and periods for one column
RECURSIVE MovingAverages(_, _, _)
MovingAverages(df, col, periods) ==
    IF periods = <<>> \/ ~InSeq(col, df.cols) THEN df
    ELSE MovingAverages(WithMovingAverage(df, col, Head(periods)), col, Tail(periods))

\* a call add_moving_averages(df, [metric], periods)
AveragesInit ==
    /\ ResolverOff
    /\ ExtractorOff
    /\ PipelineOff
    /\ RatioOff
    /\ MergeOff
    /\ FetchOff
    /\ SlideOff
    /\ tr_pc = "averages"
    /\ \E n \in 0..MaxTrendRows : \E years \in DistinctYears(n) :
          \E values \in [1..n -> TrendValues] : \E cols \in TrendLayouts :
             tr_data = TrendTable(cols, years, values)
    /\ tr_periods \in 1..MaxPeriods
    /\ tr_pad = FALSE
    /\ tr_df = <<>>
    /\ tr_results = <<>>
    /\ tr_same = FALSE

\* lines 267-271
CopyAndSort ==
    /\ tr_pc = "averages"
    /\ LET result_df == copy(tr_data)
       IN  IF InSeq(YearCol, result_df.table.cols)
           THEN /\ tr_df' = sort_values(result_df.table).table
                /\ tr_same' = (result_df.same /\ sort_values(result_df.table).same)
           ELSE /\ tr_df' = result_df.table
                /\ tr_same' = result_df.same
    /\ tr_pc' = "columns"
    /\ UNCHANGED <<tr_data, tr_periods, tr_pad, tr_results>>
    /\ UNCHANGED <<rs_vars, ex_vars, run_vars, ra_vars, mg_vars, cf_vars, sb_vars>>

\* lines 273-280
AddAverages ==
    /\ tr_pc = "columns"
    /\ tr_df' = MovingAverages(tr_df, TrendMetric, PeriodList(tr_periods))
    /\ tr_data' = Written(tr_data, tr_same, tr_df')
    /\ tr_pc' = "done"
    /\ UNCHANGED <<tr_periods, tr_pad, tr_results, tr_same>>
    /\ UNCHANGED <<rs_vars, ex_vars, run_vars, ra_vars, mg_vars, cf_vars, sb_vars>>

TrendNext == TrendNothing \/ SortValues \/ SkipMetric \/ AnalyzeMetric

SpecTrend == TrendInit /\ [][TrendNext]_vars

\* the three stages of the analysis, each called on its own
StagesInit == RatioInit \/ TrendInit \/ AveragesInit

StagesNext == RatioNext \/ TrendNext \/ CopyAndSort \/ AddAverages

SpecStages == StagesInit /\ [][StagesNext]_vars

\* the first and the last valid observation of the metric, by year
Observations(df, metric) == { i \in 1..Len(df.rows) : ~IsNa(df.rows[i][metric]) }

Earliest(df, metric) ==
    CHOOSE i \in Observations(df, metric) :
        \A j \in Observations(df, metric) : df.rows[i][YearCol].v.n <= df.rows[j][YearCol].v.n

Latest(df, metric) ==
    CHOOSE i \in Observations(df, metric) :
        \A j \in Observations(df, metric) : df.rows[j][YearCol].v.n <= df.rows[i][YearCol].v.n

Elapsed(df, metric) ==
    df.rows[Latest(df, metric)][YearCol].v.n - df.rows[Earliest(df, metric)][YearCol].v.n

\* last_year > first_year and first_valid > 0
CagrCondition(df, metric) ==
    /\ Observations(df, metric) # {}
    /\ Elapsed(df, metric) > 0
    /\ df.rows[Earliest(df, metric)][metric].v.n > 0

\* c is ((last_valid / first_valid)^(1 / n) - 1) in percent: 1 + c / 100 is
\* the n-th root of the ratio
IsGrowthOf(c, df, metric) ==
    LET ratio == FloatDiv(df.rows[Latest(df, metric)][metric],
                          df.rows[Earliest(df, metric)][metric])
        n == Elapsed(df, metric)
    IN  IF c.k = "root"
        THEN /\ c.v.ratio = ratio.v
             /\ c.v.years = n
             /\ ~(HasIntRoot(ratio.v.n, n) /\ HasIntRoot(ratio.v.d, n))
        ELSE /\ c.k = "num"
             /\ LET base == FloatDiv(FloatMinus(c, Float(-Percent, 1)), Float(Percent, 1))
                IN  /\ n > 1 => base.v.n >= 0
                    /\ Float(Power(base.v.n, n), Power(base.v.d, n)) = ratio

\* the claim as stated: the rate is a number exactly when the condition
\* holds, whatever the sign of the last valid value
C16_DefinedExactlyOnCondition ==
    (tr_pc = "done" /\ TrendMetric \in DOMAIN tr_results) =>
        (~IsNa(tr_results[TrendMetric].cagr) <=> CagrCondition(tr_df, TrendMetric))

\* C16: the rate of a metric is a number exactly when the metric has a
\* first and a last valid observation with last_year > first_year and
\* first_valid > 0 and, if more than one year elapsed, last_valid >= 0; it
\* is then ((last_valid / first_valid)^(1 / (last_year - first_year)) - 1)
\* in percent, and in every other case the missing-value marker.  100, 100,
\* 100 over two elapsed years give 0 and 100 to 200 over one year gives 100.
C16_CagrDefinedAndValue ==
    (tr_pc = "done" /\ TrendMetric \in DOMAIN tr_results) =>
        LET c == tr_results[TrendMetric].cagr
            defined == /\ CagrCondition(tr_df, TrendMetric)
                       /\ \/ Elapsed(tr_df, TrendMetric) = 1
                          \/ tr_df.rows[Latest(tr_df, TrendMetric)][TrendMetric].v.n >= 0
        IN  /\ ~IsNa(c) <=> defined
            /\ defined => IsGrowthOf(c, tr_df, TrendMetric)
            /\ (/\ Len(tr_df.rows) = 3
                /\ \A i \in 1..3 : tr_df.rows[i][TrendMetric] = Float(100, 1)
                /\ Elapsed(tr_df, TrendMetric) = 2) => c = Float(0, 1)
            /\ (/\ Len(tr_df.rows) = 2
                /\ Observations(tr_df, TrendMetric) # {}
                /\ tr_df.rows[Earliest(tr_df, TrendMetric)][TrendMetric] = Float(100, 1)
                /\ tr_df.rows[Latest(tr_df, TrendMetric)][TrendMetric] = Float(200, 1)
                /\ Elapsed(tr_df, TrendMetric) = 1) => c = Float(100, 1)

\* 200, a missing value, 800 over two elapsed years: 100 percent
C16_Witness ==
    /\ tr_pc = "done"
    /\ TrendMetric \in DOMAIN tr_results
    /\ Len(tr_df.rows) = 3
    /\ tr_df.rows[1][TrendMetric] = Float(200, 1)
    /\ IsNa(tr_df.rows[2][TrendMetric])
    /\ tr_df.rows[3][TrendMetric] = Float(800, 1)
    /\ Elapsed(tr_df, TrendMetric) = 2
    /\ tr_results[TrendMetric].cagr = Float(100, 1)

\* the record holds a number: a numeric cell in a column of its own
NumericCells(row) ==
    { c \in NonMeta(raw_df.cols) : row[c].k = "num" }

\* C20 as stated: a record of IQ_PE_RATIO, IQ_PRICE_CLOSE or IQ_MARKETCAP
\* that holds a numeric value and whose period resolves to a year of the
\* window is written to the record of that year under 'P/E Ratio', 'Stock
\* Price' or 'Market Cap', the ratio and the price as they came.
C20_MarketMetricsReachDataset ==
    (run_pc = "done" /\ outcome = "dataset") =>
        \A k \in 1..Len(MarketMnemonics) :
            LET metric_rows == MetricRows(raw_df, MarketMnemonics[k])
                cell(j) == result[j].metrics[FriendlyName(MarketMnemonics[k])]
            IN  \A i \in 1..Len(metric_rows) : \A j \in 1..Len(result) :
                   (/\ ResolveYear(metric_rows[i], raw_df.cols,
                                   metric_rows[i]["Period"].s, run_now)
                          = Some(result[j].Year)
                    /\ NumericCells(metric_rows[i]) # {})
                       => /\ cell(j).some
                          /\ MarketMnemonics[k] # IQ_MARKETCAP =>
                                \E q \in 1..Len(metric_rows) :
                                   \E c \in NumericCells(metric_rows[q]) :
                                      cell(j).val = metric_rows[q][c].v

Min(a, b) == IF a < b THEN a ELSE b

\* C23 as stated: the recent trend of a metric is the mean of the last
\* min(k, n) year-over-year growth values of its n rows, k being the window,
\* also when the table has fewer rows than the window.
C23_RecentTrendOverWhatThereIs ==
    (tr_pc = "done" /\ TrendMetric \in DOMAIN tr_results) =>
        tr_results[TrendMetric].recent_trend
           = MeanOf(LastN(Column(tr_df, YoyCol(TrendMetric)),
                          Min(tr_periods, Len(tr_df.rows))))

(***************************************************************************)
(* Properties of the plan and of the transport of a run                    *)
(***************************************************************************)
\* the place of the multi-period request of the j-th core mnemonic in the
\* plan of a run over y years
CoreBlock(j, y) == 3 + (j - 1) * (2 * y + 1) + 1

\* C24: for one company and y years the plan is, in order, the 3 metadata
\* lookups; for each of the 7 core mnemonics the multi-period request with
\* numberOfPeriods = y + 2, then for each offset -(y-1)..-1 the relative
\* request IQ_FY<offset> and the absolute request FY<current_year+offset>,
\* then IQ_FY+0 and IQ_FY+1; one request per market mnemonic; for each of
\* the 3 estimate mnemonics one request per forward offset 1..y.  That is
\* 17 * y + 13 requests, no two of them the same.
C24_PlanComposition ==
    requests # <<>> =>
        LET y == run_years
            cid == Upper(Strip(run_ticker))
            market == 3 + Len(KeyMetrics) * (2 * y + 1)
            estimates == market + Len(MarketMnemonics)
        IN  /\ Len(requests) = 17 * y + 13
            /\ \A a, b \in 1..Len(requests) : a # b => requests[a] # requests[b]
            /\ \A a \in 1..Len(requests) :
                  requests[a].identifier = cid
                  /\ (requests[a].function = "GDSHE"
                        <=> \E j \in 1..Len(KeyMetrics) : a = CoreBlock(j, y))
                  /\ (requests[a].function # "GDSHE" => requests[a].function = "GDSP")
            /\ <<requests[1].mnemonic, requests[2].mnemonic, requests[3].mnemonic>>
                  = <<IQ_COMPANY_NAME, IQ_COMPANY_ID, IQ_ULT_PARENT>>
            /\ \A a \in 1..3 : requests[a].periodType = None
            /\ \A j \in 1..Len(KeyMetrics) :
                  LET b == CoreBlock(j, y)
                  IN  /\ \A a \in b..(b + 2 * y) : requests[a].mnemonic = KeyMetrics[j]
                      /\ requests[b].periodType = Some(IQ_FY)
                      /\ requests[b].numberOfPeriods = Some(y + 2)
                      /\ \A k \in 1..(y - 1) :
                            /\ requests[b + 2 * k - 1].periodType
                                  = Some(RelPastToken(y - k))
                            /\ requests[b + 2 * k].periodType
                                  = Some(AbsToken(run_now - (y - k)))
                      /\ requests[b + 2 * y - 1].periodType = Some(RelFutureToken(0))
                      /\ requests[b + 2 * y].periodType = Some(RelFutureToken(1))
            /\ \A j \in 1..Len(MarketMnemonics) :
                  /\ requests[market + j].mnemonic = MarketMnemonics[j]
                  /\ requests[market + j].periodType = None
            /\ \A j \in 1..Len(EstimateMnemonics) : \A i \in 1..y :
                  /\ requests[estimates + (j - 1) * y + i].mnemonic = EstimateMnemonics[j]
                  /\ requests[estimates + (j - 1) * y + i].periodType
                        = Some(RelFutureToken(i))

C24_Witness ==
    /\ run_years = MaxYears
    /\ Len(requests) = 17 * MaxYears + 13
    /\ requests[CoreBlock(2, MaxYears) + 1].periodType = Some(RelPastToken(MaxYears - 1))
    /\ requests[Len(requests)].periodType = Some(RelFutureToken(MaxYears))

(***************************************************************************)
(* Transport: the loop of ciq_fetch, lines 187-194.  The call does not     *)
(* look into a request, so a request is the number of its place in         *)
(* input_requests; the service answers a chunk with one reply per request  *)
(* or with an empty list, or the post raises.                              *)
(***************************************************************************)
\* the longest plan handed to ciq_fetch
MaxRequests == 250

\* a slip of the slice: input_requests[i: i + BATCH_SIZE + 1]
Chunk_OneMore(input_requests, i) ==
    SubSeq(input_requests, i + 1, Min(i + BATCH_SIZE + 1, Len(input_requests)))

\* line 189: input_requests[i: i + BATCH_SIZE]
Chunk(input_requests, i) ==
    SubSeq(input_requests, i + 1, Min(i + BATCH_SIZE, Len(input_requests)))

FetchInit ==
    /\ ResolverOff
    /\ ExtractorOff
    /\ PipelineOff
    /\ RatioOff
    /\ MergeOff
    /\ TrendOff
    /\ SlideOff
    /\ cf_pc = "loop"
    /\ \E n \in 0..MaxRequests : cf_requests = [j \in 1..n |-> j]
    /\ cf_i = 0
    /\ cf_posted = <<>>
    /\ cf_replies = <<>>
    /\ cf_out = None

\* lines 188-190: the next chunk is posted
PostChunk ==
    /\ cf_pc = "loop"
    /\ cf_i < Len(cf_requests)
    /\ cf_posted' = Append(cf_posted, Chunk(cf_requests, cf_i))
    /\ cf_pc' = "posted"
    /\ UNCHANGED <<cf_requests, cf_i, cf_replies, cf_out>>
    /\ UNCHANGED <<rs_vars, ex_vars, run_vars, ra_vars, mg_vars, tr_vars, sb_vars>>

\* lines 191-192: the post times out or the status is no 2xx
ChunkRaises ==
    /\ cf_pc = "posted"
    /\ cf_pc' = "raised"
    /\ UNCHANGED <<cf_requests, cf_i, cf_posted, cf_replies, cf_out>>
    /\ UNCHANGED <<rs_vars, ex_vars, run_vars, ra_vars, mg_vars, tr_vars, sb_vars>>

\* line 193, and the step of the loop
ChunkAnswered ==
    /\ cf_pc = "posted"
    /\ \E answered \in BOOLEAN :
          cf_replies' = cf_replies \o (IF answered THEN cf_posted[Len(cf_posted)] ELSE <<>>)
    /\ cf_i' = cf_i + BATCH_SIZE
    /\ cf_pc' = "loop"
    /\ UNCHANGED <<cf_requests, cf_posted, cf_out>>
    /\ UNCHANGED <<rs_vars, ex_vars, run_vars, ra_vars, mg_vars, tr_vars, sb_vars>>

\* line 194
ReturnReplies ==
    /\ cf_pc = "loop"
    /\ cf_i >= Len(cf_requests)
    /\ cf_out' = Some(cf_replies)
    /\ cf_pc' = "returned"
    /\ UNCHANGED <<cf_requests, cf_i, cf_posted, cf_replies>>
    /\ UNCHANGED <<rs_vars, ex_vars, run_vars, ra_vars, mg_vars, tr_vars, sb_vars>>

FetchNext == PostChunk \/ ChunkRaises \/ ChunkAnswered \/ ReturnReplies

SpecFetch == FetchInit /\ [][FetchNext]_vars

\* the chunks still unanswered
InFlight == Len(cf_posted) - (cf_i \div BATCH_SIZE)

ChunksInOrder ==
    /\ \A c \in 1..Len(cf_posted) : 1 <= Len(cf_posted[c]) /\ Len(cf_posted[c]) <= BATCH_SIZE
    /\ Concat(cf_posted) = SubSeq(cf_requests, 1, Len(Concat(cf_posted)))
    /\ InFlight = (IF cf_pc \in {"posted", "raised"} THEN 1 ELSE 0)
    /\ cf_pc = "raised" => cf_out = None
    /\ cf_pc = "returned" =>
          /\ cf_out = Some(cf_replies)
          /\ Concat(cf_posted) = cf_requests

\* C25: ciq_fetch posts the requests in consecutive chunks of at most 100,
\* in the order of the plan, each request at most once and one chunk at a
\* time; once a chunk has failed nothing more is posted and the call gives
\* no replies, those of the chunks answered before included.
C25_ChunksInOrderNoRetry ==
    /\ []ChunksInOrder
    /\ [][cf_pc = "raised" => (cf_posted' = cf_posted /\ cf_out' = None)]_vars

C25_Witness ==
    /\ cf_pc = "raised"
    /\ Len(cf_posted) = 2
    /\ Len(cf_posted[1]) = BATCH_SIZE
    /\ Len(cf_replies) = BATCH_SIZE
    /\ Len(cf_requests) > 2 * BATCH_SIZE
    /\ cf_out = None
(***************************************************************************)
(* The stages and the dataset they are given.                              *)
(***************************************************************************)
\* C26: calculate_financial_ratios, calculate_trend_analysis and
\* add_moving_averages leave the dataset passed to them as it was, columns
\* and values: no step of a stage changes the caller's table, and what a
\* stage derives is in its working copy only.
C26_StagesLeaveTheirInput ==
    [][ra_data' = ra_data /\ tr_data' = tr_data]_vars

\* the ratio engine has returned a table wider than the one it was given
C26_Witness ==
    /\ ra_pc = "done"
    /\ Len(ra_df.cols) > Len(ra_data.cols)
    /\ ~ra_same

\* add_moving_averages and the trend engine have added a column
C26_DerivedColumnAdded ==
    /\ tr_pc = "done"
    /\ tr_df # <<>>
    /\ Len(tr_df.cols) > Len(tr_data.cols)


(***************************************************************************)
(* The normalization run as a function of the reply list.                  *)
(***************************************************************************)
\* lines 355-561, the loop over the metrics dict from its i-th metric on
RECURSIVE ProcessMetrics(_, _, _, _)
ProcessMetrics(data, i, df, current_year) ==
    IF i > Len(MetricOrder) THEN data
    ELSE ProcessMetrics(ProcessOneMetric(data, MetricOrder[i], df, current_year),
                        i + 1, df, current_year)

\* lines 245-575: what the run returns for the reply list rows
Normalized(ticker, years, current_year, rows) ==
    LET df == parse_to_table(rows)
    IN  IF Len(df.recs) = 0 THEN EmptyFrame
        ELSE ResultFrame(ProcessMetrics(
                 InitialData(ticker, years, current_year, CompanyName(ticker, df)),
                 1, df, current_year))

Reversed(s) == [i \in 1..Len(s) |-> s[Len(s) + 1 - i]]

\* s with its i-th and its next element exchanged
SwappedAt(s, i) ==
    [j \in 1..Len(s) |-> IF j = i THEN s[i + 1] ELSE IF j = i + 1 THEN s[i] ELSE s[j]]

\* orderings of a reply list: as delivered, back to front, and with two
\* neighbours exchanged
Orderings(s) == {s, Reversed(s)} \cup { SwappedAt(s, i) : i \in 1..(Len(s) - 1) }

\* the run returns what the assembler makes of the replies as delivered
ReturnsNormalized ==
    (run_pc = "done" /\ outcome = "dataset")
        => result = Normalized(run_ticker, run_years, run_now, replies)

\* C27: the dataset a normalization run returns is the same for every
\* ordering of the reply list, also when two replies of one metric resolve
\* to the same year with different values.
C27_ReplyOrderIndependence ==
    (run_pc = "done" /\ outcome = "dataset")
        => \A rows \in Orderings(replies) :
              Normalized(run_ticker, run_years, run_now, rows) = result


(***************************************************************************)
(* The records of a multi-period reply in the assembler.                   *)
(***************************************************************************)
\* the records of the metric whose period token is the bare IQ_FY: the value
\* rows of the reply to the metric's multi-period request
SentinelRows(df, mnemonic) ==
    SelectSeq(MetricRows(df, mnemonic), LAMBDA r : r["Period"] = Str(IQ_FY))

\* the rows that yield a value
Yielding(rows, cols, value_col) ==
    SelectSeq(rows, LAMBDA r : ExtractValue(r, cols, value_col).some)

\* the metric the loop is at has records of a multi-period reply and a value column
AtSentinelRows ==
    /\ run_pc = "metrics"
    /\ metric_i <= Len(MetricOrder)
    /\ Len(SentinelRows(raw_df, MetricOrder[metric_i])) > 0
    /\ FindValueCol(MetricOrder[metric_i], MetricRows(raw_df, MetricOrder[metric_i])[1],
                    raw_df.cols).some

\* every record of the reply resolves to the current year, and the records
\* together change the current year's record only
CollapseToCurrentYear(m, rows, value_col) ==
    /\ \A i \in 1..Len(rows) :
          ResolveYear(rows[i], raw_df.cols, rows[i]["Period"].s, run_now) = Some(run_now)
    /\ \A y \in DOMAIN financial_data \ {run_now} :
          ProcessRows(financial_data, m, rows, raw_df.cols, value_col, run_now)[y]
             = financial_data[y]

\* C28 as stated: every value row of a reply with the bare token IQ_FY
\* resolves to the current year whatever its date column holds, and of the
\* rows of the reply only the one processed last can contribute: the reply
\* leaves the dataset as its last row alone would.
C28_OnlyLastRowContributes ==
    AtSentinelRows =>
        LET m == MetricOrder[metric_i]
            rows == SentinelRows(raw_df, m)
            value_col == FindValueCol(m, MetricRows(raw_df, m)[1], raw_df.cols).val
        IN  /\ CollapseToCurrentYear(m, rows, value_col)
            /\ ProcessRows(financial_data, m, rows, raw_df.cols, value_col, run_now)
                  = ProcessRow(financial_data, m, rows[Len(rows)], raw_df.cols,
                               value_col, run_now)

\* C28, amended: every value row of such a reply resolves to the current
\* year whatever its date column holds, and the reply leaves the dataset as
\* the last of its rows that yields a value alone would (unchanged when no
\* row yields one); only the current year's record can change.
C28_LastYieldingRowContributes ==
    AtSentinelRows =>
        LET m == MetricOrder[metric_i]
            rows == SentinelRows(raw_df, m)
            value_col == FindValueCol(m, MetricRows(raw_df, m)[1], raw_df.cols).val
            yielding == Yielding(rows, raw_df.cols, value_col)
        IN  /\ CollapseToCurrentYear(m, rows, value_col)
            /\ ProcessRows(financial_data, m, rows, raw_df.cols, value_col, run_now)
                  = IF Len(yielding) = 0 THEN financial_data
                    ELSE ProcessRow(financial_data, m, yielding[Len(yielding)],
                                    raw_df.cols, value_col, run_now)

\* a reply of two rows dated in different years with different values, both
\* of which yield a value
C28_Witness ==
    /\ AtSentinelRows
    /\ LET m == MetricOrder[metric_i]
           rows == SentinelRows(raw_df, m)
           value_col == FindValueCol(m, MetricRows(raw_df, m)[1], raw_df.cols).val
       IN  /\ Len(Yielding(rows, raw_df.cols, value_col)) = 2
           /\ rows[1]["asOfDate"] # rows[2]["asOfDate"]
           /\ rows[1][value_col] # rows[2][value_col]
           /\ run_years > 1


(***************************************************************************)
(* The Ratio Engine applied to its own output.                             *)
(***************************************************************************)
\* lines 20-35: the five ratio functions in the order of ratio_functions, on
\* a copy of data
calculate_financial_ratios(data) ==
    calculate_valuation_ratios(
        calculate_leverage_ratios(
            calculate_efficiency_ratios(
                calculate_liquidity_ratios(
                    calculate_profitability_ratios(copy(data).table)))))

\* the engine's steps compute what the function composition does
ReturnsComposition ==
    ra_pc = "done" => ra_df = calculate_financial_ratios(ra_data)

\* C29: for every dataset, single-entity or entity-suffixed, applying
\* calculate_financial_ratios to its own output gives the same columns and
\* the same values as applying it once.
C29_RatioEngineIdempotent ==
    ra_pc = "done" => calculate_financial_ratios(ra_df) = ra_df

\* what holds: a second application changes nothing when the first one
\* added no column
C29_IdempotentWhereNothingAdded ==
    (ra_pc = "done" /\ ra_df.cols = ra_data.cols)
        => calculate_financial_ratios(ra_df) = ra_df


(***************************************************************************)
(* One slide of the slide builder.  Every action is one run of the page    *)
(* script after one interaction: the on_change callback or the button      *)
(* handler, then the block that shows the stored data.  A stored dataset   *)
(* survives data.to_dict() and pd.DataFrame(...) with its columns and rows.*)
(***************************************************************************)
\* the texts typed into a ticker field
SlideTickers == { <<"A">>, <<"B">>, <<"m">> }

\* the years of a fetched dataset
SlideYears == <<FirstMergeYear, FirstMergeYear + 1>>

\* what fetch_company_by_ticker returns to the slide builder: the dataset of
\* the company, or the frame without rows
FetchOutcomes(ticker) == {None, Some(Dataset(SlideYears, TRUE, Upper(ticker)))}

\* lines 129-171 of the slide builder
merge_company_data(data1, data2, ticker1, ticker2) ==
    IF ~data1.some \/ ~data2.some THEN None
    ELSE LET df1 == Renamed(WithYear(data1.val), ticker1)
             df2 == Renamed(WithYear(data2.val), ticker2)
         IN  IF InSeq(YearCol, df1.cols) /\ InSeq(YearCol, df2.cols)
             THEN Some(OuterMerge(df1, df2))
             ELSE None

\* lines 65-127 with trend analysis and moving averages switched off, as on
\* a new slide: the data to store, None when nothing is stored
display_company_metrics(ticker, enable_ratios, fetched) ==
    IF ticker = <<>> \/ ~fetched.some THEN None
    ELSE IF enable_ratios THEN Some(calculate_financial_ratios(fetched.val))
    ELSE fetched

\* lines 706-745: slide['merged_data'] after the stored data is shown
ShowData(chart_data, chart_data2, ticker, ticker2, merged_data) ==
    IF chart_data.some /\ chart_data2.some /\ ticker2 # <<>>
    THEN LET merged == merge_company_data(chart_data, chart_data2, ticker, ticker2)
         IN  IF merged.some THEN merged ELSE merged_data
    ELSE merged_data

SlideInit ==
    /\ ResolverOff
    /\ ExtractorOff
    /\ PipelineOff
    /\ RatioOff
    /\ MergeOff
    /\ TrendOff
    /\ FetchOff
    /\ sb_pc = "idle"
    /\ sb_ticker = <<>>
    /\ sb_ticker2 = <<>>
    /\ sb_enable_ratios \in BOOLEAN
    /\ sb_chart_data = None
    /\ sb_chart_data2 = None
    /\ sb_fetched = <<>>
    /\ sb_fetched2 = <<>>
    /\ sb_merged_data = None

\* lines 614-619 and 885-888, then 706-745: the primary ticker is edited
EditTicker ==
    /\ sb_pc = "idle"
    /\ \E t \in SlideTickers \cup {<<>>} :
          /\ t # sb_ticker
          /\ sb_ticker' = t
    /\ UNCHANGED <<sb_pc, sb_ticker2, sb_enable_ratios, sb_chart_data, sb_chart_data2,
                   sb_fetched, sb_fetched2>>
    /\ sb_merged_data' = ShowData(sb_chart_data, sb_chart_data2, sb_ticker', sb_ticker2,
                                  sb_merged_data)
    /\ UNCHANGED <<rs_vars, ex_vars, run_vars, ra_vars, mg_vars, tr_vars, cf_vars>>

\* lines 666-671 and 885-888, then 706-745: the comparison ticker is edited
EditTicker2 ==
    /\ sb_pc = "idle"
    /\ \E t \in SlideTickers \cup {<<>>} :
          /\ t # sb_ticker2
          /\ sb_ticker2' = t
    /\ UNCHANGED <<sb_pc, sb_ticker, sb_enable_ratios, sb_chart_data, sb_chart_data2,
                   sb_fetched, sb_fetched2>>
    /\ sb_merged_data' = ShowData(sb_chart_data, sb_chart_data2, sb_ticker, sb_ticker2',
                                  sb_merged_data)
    /\ UNCHANGED <<rs_vars, ex_vars, run_vars, ra_vars, mg_vars, tr_vars, cf_vars>>

\* lines 676-680, then 706-745: Fetch Primary Company
FetchPrimary ==
    /\ sb_pc = "idle"
    /\ sb_ticker # <<>>
    /\ \E fetched \in FetchOutcomes(sb_ticker) :
          LET data == display_company_metrics(sb_ticker, sb_enable_ratios, fetched)
          IN  IF data.some
              THEN /\ sb_chart_data' = data
                   /\ sb_fetched' = sb_ticker
              ELSE UNCHANGED <<sb_chart_data, sb_fetched>>
    /\ UNCHANGED <<sb_pc, sb_ticker, sb_ticker2, sb_enable_ratios, sb_chart_data2,
                   sb_fetched2>>
    /\ sb_merged_data' = ShowData(sb_chart_data', sb_chart_data2, sb_ticker, sb_ticker2,
                                  sb_merged_data)
    /\ UNCHANGED <<rs_vars, ex_vars, run_vars, ra_vars, mg_vars, tr_vars, cf_vars>>

\* lines 682-687, then 706-745: Fetch Comparison Company
FetchComparison ==
    /\ sb_pc = "idle"
    /\ sb_ticker2 # <<>>
    /\ \E fetched \in FetchOutcomes(sb_ticker2) :
          LET data2 == display_company_metrics(sb_ticker2, sb_enable_ratios, fetched)
          IN  IF data2.some
              THEN /\ sb_chart_data2' = data2
                   /\ sb_fetched2' = sb_ticker2
              ELSE UNCHANGED <<sb_chart_data2, sb_fetched2>>
    /\ UNCHANGED <<sb_pc, sb_ticker, sb_ticker2, sb_enable_ratios, sb_chart_data,
                   sb_fetched>>
    /\ sb_merged_data' = ShowData(sb_chart_data, sb_chart_data2', sb_ticker, sb_ticker2,
                                  sb_merged_data)
    /\ UNCHANGED <<rs_vars, ex_vars, run_vars, ra_vars, mg_vars, tr_vars, cf_vars>>

SlideNext == EditTicker \/ EditTicker2 \/ FetchPrimary \/ FetchComparison

SpecSlide == SlideInit /\ [][SlideNext]_vars

\* the columns of the comparison of the stored datasets under two labels
ComparisonColumns(ticker1, ticker2) ==
    merge_company_data(sb_chart_data, sb_chart_data2, ticker1, ticker2).val.cols

\* C30: after any sequence of ticker edits and fetches on a slide, the
\* suffix of each company's columns in the merged comparison dataset is the
\* ticker for which that company's stored data (chart_data, chart_data2)
\* was fetched.
C30_LabelsMatchFetchedData ==
    sb_merged_data.some
        => sb_merged_data.val.cols = ComparisonColumns(sb_fetched, sb_fetched2)

\* what holds: right after both datasets were fetched for the tickers now in
\* the fields, the labels are the tickers fetched
C30_LabelsOfUneditedTickers ==
    (/\ sb_merged_data.some
     /\ sb_ticker = sb_fetched
     /\ sb_ticker2 = sb_fetched2)
        => sb_merged_data.val.cols = ComparisonColumns(sb_fetched, sb_fetched2)

====
